---- MODULE Spec2Model ----
(***************************************************************************)
(* DOCSIS channel health analysis (src/app/analyzer.py).                   *)
(*                                                                         *)
(* Numbers: every dBmV / dB quantity is an integer number of hundredths    *)
(* (7.01 dBmV is 701), so -4.0 in the source is -400 here.                 *)
(* Strings that the code searches, joins or normalises (issue strings,     *)
(* detail strings, issue tags, modulation names, threshold keys) are       *)
(* sequences of one-character strings; strings the code only compares for  *)
(* equality (health levels, DOCSIS versions, dict field names) are TLA+    *)
(* strings.  A Python dict is a function; d.get(k, default) is Get.        *)
(***************************************************************************)
EXTENDS Integers, Sequences, FiniteSets, TLC

VARIABLES
    _thresholds,   \* analyzer._thresholds, the process-wide threshold table
    pc,            \* "import" | "idle" | "assessed" | "analyzed" | "raised" |
                   \* "resolved_ds_power" | "resolved_us_power" |
                   \* "resolved_snr" | "resolved_uncorr"
    data,          \* the raw modem payload handed to analyze
    ch,            \* the reading handed to _assess_ds_channel / _assess_us_channel
    docsis_ver,    \* its docsis_ver argument
    direction,     \* "ds" | "us" | "": which classifier ran last
    verdict,       \* the classifier's return value <<health, health_detail>>
    result,        \* the return value of analyze
    lookup_key,    \* the argument handed to a threshold resolver
    resolved,      \* the resolver's return value
    calls,         \* per thread calling analyze: where its call stands, its
                   \* argument and its return value
    frames,        \* the local lists ds_channels / us_channels of the calls
    _prev,         \* EventDetector._prev of the polling loop's detector
    analysis,      \* the analysis handed to the latest check
    before,        \* the analysis handed to the check before that one
    events,        \* the return value of the latest check
    checks,        \* the number of checks made
    now,           \* time.time(), in seconds
    _last_manual_poll,  \* web._last_manual_poll
    requests,      \* per request handler: where its POST /api/poll stands
    modem_polls,   \* the manual modem polls carried out so far
    poll_thread,   \* main's poll_thread: a thread, or 0 for None
    poll_stop,     \* main's poll_stop: an event, or 0 for None
    loops,         \* per thread: where its polling_loop stands and its stop_event
    stop_events,   \* per threading.Event: "unborn", "clear" or "set"
    starters       \* per thread calling start_polling: where the call stands

call_vars == <<calls, frames>>

detector_vars == <<_prev, analysis, before, events, checks>>

web_vars == <<now, _last_manual_poll, requests, modem_polls>>

main_vars == <<poll_thread, poll_stop, loops, stop_events, starters>>

\* the state of the threads of the running service
process_vars == <<call_vars, detector_vars, web_vars, main_vars>>

vars == <<_thresholds, pc, data, ch, docsis_ver, direction, verdict, result,
          lookup_key, resolved, process_vars>>

-----------------------------------------------------------------------------
(* Python values *)

EmptyDict == [k \in {} |-> 0]

Get(d, k, default) == IF k \in DOMAIN d THEN d[k] ELSE default

SetKey(d, k, v) == [x \in (DOMAIN d) \cup {k} |-> IF x = k THEN v ELSE d[x]]

\* A field value of a reading: None, a str, a float or an int.  A str is ""
\* (empty), a numeric text denoting val, or text that float() rejects (junk).
None == [py |-> "None", text |-> "", val |-> 0]
StrEmpty == [py |-> "str", text |-> "empty", val |-> 0]
StrJunk == [py |-> "str", text |-> "junk", val |-> 0]
StrNum(v) == [py |-> "str", text |-> "num", val |-> v]
Float(v) == [py |-> "float", text |-> "", val |-> v]
PyInt(n) == [py |-> "int", text |-> "", val |-> n]

\* int + v is defined: v is an int or a float
IsNumber(v) == v.py \in {"int", "float"}

\* bool(v): None, "" and a zero number are falsy; every other value is truthy
\* (the str "0" included).
Truthy(v) ==
    CASE v.py = "None" -> FALSE
      [] v.py = "str" -> v.text # "empty"
      [] OTHER -> v.val # 0

Abs(x) == IF x < 0 THEN -x ELSE x

\* s in t for two strings
Contains(sub, s) ==
    \E i \in 1..(Len(s) - Len(sub) + 1) : SubSeq(s, i, i + Len(sub) - 1) = sub

LowerCase == <<"a","b","c","d","e","f","g","h","i","j","k","l","m",
               "n","o","p","q","r","s","t","u","v","w","x","y","z">>
UpperCase == <<"A","B","C","D","E","F","G","H","I","J","K","L","M",
               "N","O","P","Q","R","S","T","U","V","W","X","Y","Z">>

UpperChar(c) ==
    IF \E i \in 1..26 : LowerCase[i] = c
        THEN UpperCase[CHOOSE i \in 1..26 : LowerCase[i] = c]
        ELSE c

\* str.upper()
Upper(s) == [i \in 1..Len(s) |-> UpperChar(s[i])]

NotHyphen(c) == c # "-"

\* str.replace("-", "")
StripHyphens(s) == SelectSeq(s, NotHyphen)

-----------------------------------------------------------------------------
(* String literals of analyzer.py *)

S_power_critical == <<"p","o","w","e","r"," ","c","r","i","t","i","c","a","l">>
S_power_warning == <<"p","o","w","e","r"," ","w","a","r","n","i","n","g">>
S_snr_critical == <<"s","n","r"," ","c","r","i","t","i","c","a","l">>
S_snr_warning == <<"s","n","r"," ","w","a","r","n","i","n","g">>
S_join == <<" ","+"," ">>
S_critical == <<"c","r","i","t","i","c","a","l">>
S_ds_power_critical == <<"d","s","_","p","o","w","e","r","_","c","r","i","t","i","c","a","l">>
S_ds_power_warn == <<"d","s","_","p","o","w","e","r","_","w","a","r","n">>
S_us_power_critical == <<"u","s","_","p","o","w","e","r","_","c","r","i","t","i","c","a","l">>
S_us_power_warn == <<"u","s","_","p","o","w","e","r","_","w","a","r","n">>
S_snr_critical_tag == <<"s","n","r","_","c","r","i","t","i","c","a","l">>
S_snr_warn_tag == <<"s","n","r","_","w","a","r","n">>
S_uncorr_errors_high == <<"u","n","c","o","r","r","_","e","r","r","o","r","s","_","h","i","g","h">>
S_default == <<"_","d","e","f","a","u","l","t">>
S_256QAM == <<"2","5","6","Q","A","M">>
S_4096QAM == <<"4","0","9","6","Q","A","M">>
S_64QAM == <<"6","4","Q","A","M">>

-----------------------------------------------------------------------------
(* Hardcoded fallback bounds, in hundredths *)

DS_GOOD_MIN == -400
DS_GOOD_MAX == 1300
DS_CRIT_MIN == -800
DS_CRIT_MAX == 2000
US_GOOD_MIN == 4100
US_GOOD_MAX == 4700
US_CRIT_MIN == 3500
US_CRIT_MAX == 5300
SNR_GOOD_MIN == 3300
SNR_CRIT_MIN == 2900
UNCORR_THRESHOLD == 10000

-----------------------------------------------------------------------------
(* Threshold resolution *)

\* _get_ds_power_thresholds that ignores the "_default" entry
_get_ds_power_thresholds_no_default(modulation) ==
    LET ds == Get(_thresholds, "downstream_power", EmptyDict)
        mod == IF modulation \in DOMAIN ds THEN modulation ELSE S_256QAM
        t == Get(ds, mod, EmptyDict)
    IN  [good_min |-> Get(t, "good_min", DS_GOOD_MIN),
         good_max |-> Get(t, "good_max", DS_GOOD_MAX),
         crit_min |-> Get(t, "immediate_min", DS_CRIT_MIN),
         crit_max |-> Get(t, "immediate_max", DS_CRIT_MAX)]

_get_ds_power_thresholds(modulation) ==
    LET ds == Get(_thresholds, "downstream_power", EmptyDict)
        default_mod == Get(ds, S_default, S_256QAM)
        mod == IF modulation \in DOMAIN ds THEN modulation ELSE default_mod
        t == Get(ds, mod, EmptyDict)
    IN  [good_min |-> Get(t, "good_min", DS_GOOD_MIN),
         good_max |-> Get(t, "good_max", DS_GOOD_MAX),
         crit_min |-> Get(t, "immediate_min", DS_CRIT_MIN),
         crit_max |-> Get(t, "immediate_max", DS_CRIT_MAX)]

\* _get_us_power_thresholds that looks the version up without mapping it
_get_us_power_thresholds_unmapped(docsis_version) ==
    LET us == Get(_thresholds, "upstream_power", EmptyDict)
        default_ver == Get(us, "_default", "EuroDOCSIS 3.0")
        t == Get(us, docsis_version, Get(us, default_ver, EmptyDict))
    IN  [good_min |-> Get(t, "good_min", US_GOOD_MIN),
         good_max |-> Get(t, "good_max", US_GOOD_MAX),
         crit_min |-> Get(t, "immediate_min", US_CRIT_MIN),
         crit_max |-> Get(t, "immediate_max", US_CRIT_MAX)]

_get_us_power_thresholds(docsis_version) ==
    LET us == Get(_thresholds, "upstream_power", EmptyDict)
        default_ver == Get(us, "_default", "EuroDOCSIS 3.0")
        ver == IF docsis_version \in {"3.1", "DOCSIS 3.1"} THEN "DOCSIS 3.1"
               ELSE IF docsis_version \in {"3.0", "EuroDOCSIS 3.0"} THEN "EuroDOCSIS 3.0"
               ELSE default_ver
        t == Get(us, ver, Get(us, default_ver, EmptyDict))
    IN  [good_min |-> Get(t, "good_min", US_GOOD_MIN),
         good_max |-> Get(t, "good_max", US_GOOD_MAX),
         crit_min |-> Get(t, "immediate_min", US_CRIT_MIN),
         crit_max |-> Get(t, "immediate_max", US_CRIT_MAX)]

\* _get_snr_thresholds that falls back to the constants only for an empty
\* record and otherwise returns the bounds the record holds
_get_snr_thresholds_whole_record(modulation) ==
    LET snr == Get(_thresholds, "snr", EmptyDict)
        default_mod == Get(snr, S_default, S_256QAM)
        mod == IF modulation \in DOMAIN snr THEN modulation ELSE default_mod
        t == Get(snr, mod, EmptyDict)
    IN  IF t = EmptyDict
        THEN [good_min |-> SNR_GOOD_MIN, crit_min |-> SNR_CRIT_MIN]
        ELSE (IF "good_min" \in DOMAIN t THEN [good_min |-> t.good_min] ELSE EmptyDict)
             @@ (IF "immediate_min" \in DOMAIN t
                     THEN [crit_min |-> t.immediate_min] ELSE EmptyDict)

_get_snr_thresholds(modulation) ==
    LET snr == Get(_thresholds, "snr", EmptyDict)
        default_mod == Get(snr, S_default, S_256QAM)
        mod == IF modulation \in DOMAIN snr THEN modulation ELSE default_mod
        t == Get(snr, mod, EmptyDict)
    IN  [good_min |-> Get(t, "good_min", SNR_GOOD_MIN),
         crit_min |-> Get(t, "immediate_min", SNR_CRIT_MIN)]

_get_uncorr_threshold ==
    Get(Get(_thresholds, "errors", EmptyDict), "uncorrectable_threshold", UNCORR_THRESHOLD)

-----------------------------------------------------------------------------
(* Channel classification *)

\* float(val), with TypeError (None) and ValueError ("" or junk) caught
_parse_float(val, default) ==
    CASE val.py = "None" -> default
      [] val.py = "str" -> IF val.text = "num" THEN val.val ELSE default
      [] OTHER -> val.val

\* _channel_health looking at the first issue only
_channel_health_first(issues) ==
    IF issues = <<>> THEN "good"
    ELSE IF Contains(S_critical, issues[1]) THEN "critical"
    ELSE "warning"

_channel_health(issues) ==
    IF issues = <<>> THEN "good"
    ELSE IF \E i \in 1..Len(issues) : Contains(S_critical, issues[i]) THEN "critical"
    ELSE "warning"

RECURSIVE Join(_, _)
\* sep.join(strs)
Join(sep, strs) ==
    IF strs = <<>> THEN <<>>
    ELSE IF Len(strs) = 1 THEN strs[1]
    ELSE strs[1] \o sep \o Join(sep, Tail(strs))

_health_detail(issues) ==
    IF issues = <<>> THEN <<>> ELSE Join(S_join, issues)

\* PowerIssues with the good band compared by <= and >=
PowerIssuesGoodInclusive(power, pt) ==
    IF power < pt.crit_min \/ power > pt.crit_max THEN <<S_power_critical>>
    ELSE IF power <= pt.good_min \/ power >= pt.good_max THEN <<S_power_warning>>
    ELSE <<>>

\* PowerIssues with the critical band compared by <= and >=
PowerIssuesCritInclusive(power, pt) ==
    IF power <= pt.crit_min \/ power >= pt.crit_max THEN <<S_power_critical>>
    ELSE IF power < pt.good_min \/ power > pt.good_max THEN <<S_power_warning>>
    ELSE <<>>

\* PowerIssues with two independent ifs instead of if / elif
PowerIssuesCumulative(power, pt) ==
    (IF power < pt.crit_min \/ power > pt.crit_max THEN <<S_power_critical>> ELSE <<>>)
    \o (IF power < pt.good_min \/ power > pt.good_max THEN <<S_power_warning>> ELSE <<>>)

\* the if / elif on power of both classifiers
PowerIssues(power, pt) ==
    IF power < pt.crit_min \/ power > pt.crit_max THEN <<S_power_critical>>
    ELSE IF power < pt.good_min \/ power > pt.good_max THEN <<S_power_warning>>
    ELSE <<>>

\* SnrVal without abs() on the mse
SnrValSigned(c, ver) ==
    IF ver = "3.0" /\ Truthy(Get(c, "mse", None))
        THEN <<_parse_float(c["mse"], 0)>>
    ELSE IF ver = "3.1" /\ Truthy(Get(c, "mer", None))
        THEN <<_parse_float(c["mer"], 0)>>
    ELSE <<>>

\* snr_val of _assess_ds_channel: <<>> is None, <<v>> is the float v
SnrVal(c, ver) ==
    IF ver = "3.0" /\ Truthy(Get(c, "mse", None))
        THEN <<Abs(_parse_float(c["mse"], 0))>>
    ELSE IF ver = "3.1" /\ Truthy(Get(c, "mer", None))
        THEN <<_parse_float(c["mer"], 0)>>
    ELSE <<>>

SnrIssues(snr_val, st) ==
    IF snr_val = <<>> THEN <<>>
    ELSE IF snr_val[1] < st.crit_min THEN <<S_snr_critical>>
    ELSE IF snr_val[1] < st.good_min THEN <<S_snr_warning>>
    ELSE <<>>

\* ch.get("modulation") or ch.get("type") or "": the str values are the
\* character sequences themselves, None and "" are <<>>
ModulationOf(c) ==
    LET m == Get(c, "modulation", <<>>)
    IN  IF m # <<>> THEN m ELSE Get(c, "type", <<>>)

\* DsIssues looking the thresholds up under the name as the reading spells it
DsIssuesRawKey(c, ver) ==
    LET power == _parse_float(Get(c, "powerLevel", None), 0)
        modulation == ModulationOf(c)
    IN  PowerIssues(power, _get_ds_power_thresholds(modulation))
        \o SnrIssues(SnrVal(c, ver), _get_snr_thresholds(modulation))

DsIssues(c, ver) ==
    LET power == _parse_float(Get(c, "powerLevel", None), 0)
        modulation == StripHyphens(Upper(ModulationOf(c)))
    IN  PowerIssues(power, _get_ds_power_thresholds(modulation))
        \o SnrIssues(SnrVal(c, ver), _get_snr_thresholds(modulation))

_assess_ds_channel(c, ver) ==
    <<_channel_health(DsIssues(c, ver)), _health_detail(DsIssues(c, ver))>>

\* UsIssues taking a reading without a power for a reading without an issue
UsIssuesSkipMissing(c, ver) ==
    IF Get(c, "powerLevel", None) = None THEN <<>>
    ELSE PowerIssues(_parse_float(Get(c, "powerLevel", None), 0), _get_us_power_thresholds(ver))

UsIssues(c, ver) ==
    PowerIssues(_parse_float(Get(c, "powerLevel", None), 0), _get_us_power_thresholds(ver))

_assess_us_channel(c, ver) ==
    <<_channel_health(UsIssues(c, ver)), _health_detail(UsIssues(c, ver))>>

-----------------------------------------------------------------------------
(* analyze *)

\* DsRecord keeping the sign of mse
DsRecordSigned(c, ver) ==
    LET proxy == IF ver = "3.0" THEN Get(c, "mse", None) ELSE Get(c, "mer", None)
    IN  [channel_id |-> Get(c, "channelID", 0),
         power |-> _parse_float(Get(c, "powerLevel", None), 0),
         modulation |-> ModulationOf(c),
         snr |-> IF Truthy(proxy) THEN <<_parse_float(proxy, 0)>> ELSE <<>>,
         correctable_errors |-> Get(c, "corrErrors", PyInt(0)),
         uncorrectable_errors |-> Get(c, "nonCorrErrors", PyInt(0)),
         docsis_version |-> ver,
         health |-> _assess_ds_channel(c, ver)[1],
         health_detail |-> _assess_ds_channel(c, ver)[2]]

\* one ds_channels entry (lines 172-186 for "3.0", 188-202 for "3.1")
DsRecord(c, ver) ==
    LET proxy == IF ver = "3.0" THEN Get(c, "mse", None) ELSE Get(c, "mer", None)
        parsed == _parse_float(proxy, 0)
    IN  [channel_id |-> Get(c, "channelID", 0),
         power |-> _parse_float(Get(c, "powerLevel", None), 0),
         modulation |-> ModulationOf(c),
         snr |-> IF Truthy(proxy)
                     THEN <<IF ver = "3.0" THEN Abs(parsed) ELSE parsed>>
                     ELSE <<>>,
         correctable_errors |-> Get(c, "corrErrors", PyInt(0)),
         uncorrectable_errors |-> Get(c, "nonCorrErrors", PyInt(0)),
         docsis_version |-> ver,
         health |-> _assess_ds_channel(c, ver)[1],
         health_detail |-> _assess_ds_channel(c, ver)[2]]

\* one us_channels entry (lines 209-219 for "3.0", 221-231 for "3.1")
UsRecord(c, ver) ==
    [channel_id |-> Get(c, "channelID", 0),
     power |-> _parse_float(Get(c, "powerLevel", None), 0),
     modulation |-> ModulationOf(c),
     docsis_version |-> ver,
     health |-> _assess_us_channel(c, ver)[1],
     health_detail |-> _assess_us_channel(c, ver)[2]]

RECURSIVE InsertByIdBeforeEqual(_, _)
\* InsertById placing r before the entries of equal channel_id
InsertByIdBeforeEqual(r, sorted) ==
    IF sorted = <<>> THEN <<r>>
    ELSE IF sorted[Len(sorted)].channel_id < r.channel_id THEN Append(sorted, r)
    ELSE Append(InsertByIdBeforeEqual(r, SubSeq(sorted, 1, Len(sorted) - 1)),
                sorted[Len(sorted)])

RECURSIVE InsertById(_, _)
\* r goes after every entry whose channel_id is not greater: the sort is stable
InsertById(r, sorted) ==
    IF sorted = <<>> THEN <<r>>
    ELSE IF sorted[Len(sorted)].channel_id <= r.channel_id THEN Append(sorted, r)
    ELSE Append(InsertById(r, SubSeq(sorted, 1, Len(sorted) - 1)), sorted[Len(sorted)])

RECURSIVE SortById(_)
\* list.sort(key=lambda c: c["channel_id"])
SortById(recs) ==
    IF recs = <<>> THEN <<>>
    ELSE InsertById(recs[Len(recs)], SortById(SubSeq(recs, 1, Len(recs) - 1)))

RECURSIVE SumUncorr(_)
SumUncorr(recs) ==
    IF recs = <<>> THEN 0 ELSE recs[1].uncorrectable_errors.val + SumUncorr(Tail(recs))

RECURSIVE SumCorr(_)
SumCorr(recs) ==
    IF recs = <<>> THEN 0 ELSE recs[1].correctable_errors.val + SumCorr(Tail(recs))

\* any(sub in c["health_detail"] for c in channels)
AnyDetail(sub, channels) ==
    \E i \in 1..Len(channels) : Contains(sub, channels[i].health_detail)

\* CategoryIssues with two independent ifs instead of if / elif
CategoryIssuesBoth(channels, crit, warn, crit_tag, warn_tag) ==
    (IF AnyDetail(crit, channels) THEN <<crit_tag>> ELSE <<>>)
    \o (IF AnyDetail(warn, channels) THEN <<warn_tag>> ELSE <<>>)

\* the if / elif of one issue category (lines 262-277)
CategoryIssues(channels, crit, warn, crit_tag, warn_tag) ==
    IF AnyDetail(crit, channels) THEN <<crit_tag>>
    ELSE IF AnyDetail(warn, channels) THEN <<warn_tag>>
    ELSE <<>>

\* UncorrIssues comparing by >=
UncorrIssuesAtLeast(total_uncorr) ==
    IF total_uncorr >= _get_uncorr_threshold THEN <<S_uncorr_errors_high>> ELSE <<>>

UncorrIssues(total_uncorr) ==
    IF total_uncorr > _get_uncorr_threshold THEN <<S_uncorr_errors_high>> ELSE <<>>

\* HealthIssues without the SNR category
HealthIssuesNoSnr(ds_channels, us_channels) ==
    CategoryIssues(ds_channels, S_power_critical, S_power_warning,
                   S_ds_power_critical, S_ds_power_warn)
    \o CategoryIssues(us_channels, S_power_critical, S_power_warning,
                      S_us_power_critical, S_us_power_warn)
    \o UncorrIssues(SumUncorr(ds_channels))

\* health_issues (lines 259-280)
HealthIssues(ds_channels, us_channels) ==
    CategoryIssues(ds_channels, S_power_critical, S_power_warning,
                   S_ds_power_critical, S_ds_power_warn)
    \o CategoryIssues(us_channels, S_power_critical, S_power_warning,
                      S_us_power_critical, S_us_power_warn)
    \o CategoryIssues(ds_channels, S_snr_critical, S_snr_warning,
                      S_snr_critical_tag, S_snr_warn_tag)
    \o UncorrIssues(SumUncorr(ds_channels))

\* OverallHealth taking every issue for a critical one
OverallHealthAnyPoor(issues) ==
    IF issues = <<>> THEN "good" ELSE "poor"

\* summary["health"] (lines 282-287)
OverallHealth(issues) ==
    IF issues = <<>> THEN "good"
    ELSE IF \E i \in 1..Len(issues) : Contains(S_critical, issues[i]) THEN "poor"
    ELSE "marginal"

\* the values of a list, as a set
Range(values) == {values[i] : i \in 1..Len(values)}

\* min(values), max(values), sum(values) of a list of numbers
Min(values) == CHOOSE v \in Range(values) : \A w \in Range(values) : v <= w

Max(values) == CHOOSE v \in Range(values) : \A w \in Range(values) : v >= w

RECURSIVE Sum(_)
Sum(values) == IF values = <<>> THEN 0 ELSE values[1] + Sum(Tail(values))

RECURSIVE Pow2(_)
Pow2(n) == IF n = 0 THEN 1 ELSE 2 * Pow2(n - 1)

RECURSIVE PowMod(_, _)
\* 2^n modulo m
PowMod(n, m) == IF n = 0 THEN 1 % m ELSE (2 * PowMod(n - 1, m)) % m

\* A float holds a/100 (a > 0 hundredths) as the nearest double, a 53-bit
\* significand M with M <= a * 2^s / 100 < M + 1 before rounding; the double
\* lies above a/100 when the remainder R of that division exceeds one half.
\* R is 0 exactly when a/100 is a binary fraction (a is a multiple of 25).
DoubleAbove(a) ==
    LET j == CHOOSE i \in 0..18 : 100 * Pow2(i) <= 128 * a /\ 128 * a < 100 * Pow2(i + 1)
        R == ((a % 100) * PowMod(59 - j, 100)) % 100
    IN  R > 50

\* round(number, 1) cutting the digits off
round_truncating(number) ==
    LET a == Abs(number)
        m == a - (a % 10)
    IN  IF number < 0 THEN -m ELSE m

\* round(number, 1) of the float holding number hundredths: the nearest
\* tenth of the double; an exact tie (only a binary fraction can be one)
\* goes to the even tenth
round(number) ==
    LET a == Abs(number)
        r == a % 10
        lo == a - r
        up == IF r # 5 THEN r > 5
              ELSE IF a % 25 = 0 THEN (lo \div 10) % 2 = 1
              ELSE DoubleAbove(a)
        m == IF up THEN lo + 10 ELSE lo
    IN  IF number < 0 THEN -m ELSE m

\* How the float error of sum(values) / len(values) falls when the exact
\* mean is a decimal tie x.x5 and the operands are not binary fractions: the
\* computed double lies below or above the tie, depending on the operands
\* and on the interpreter's summation; one error for each average.
Averages == {"ds_power_avg", "us_power_avg", "ds_snr_avg"}

FloatSumErrors == [Averages -> {"below", "above"}]

\* every operand is a binary fraction: the float sum is exact and the
\* quotient is the double nearest to the mean
ExactSum(values) == \A v \in Range(values) : v % 25 = 0

\* round(sum(values) / len(values), 1), values not empty
RoundedAvg(values, fsum) ==
    LET n == Len(values)
        S == Sum(values)
        lo == 10 * (S \div (10 * n))
        rem == S - lo * n
    IN  IF 2 * rem < 10 * n THEN lo
        ELSE IF 2 * rem > 10 * n THEN lo + 10
        ELSE IF n = 1 \/ ExactSum(values) THEN round(lo + 5)
        ELSE IF fsum = "above" THEN lo + 10 ELSE lo

\* StatMin without the rounding
StatMinUnrounded(values) == IF values = <<>> THEN 0 ELSE Min(values)

\* round(min(values), 1) if values else 0
StatMin(values) == IF values = <<>> THEN 0 ELSE round(Min(values))

\* round(max(values), 1) if values else 0
StatMax(values) == IF values = <<>> THEN 0 ELSE round(Max(values))

\* round(sum(values) / len(values), 1) if values else 0
StatAvg(values, fsum) == IF values = <<>> THEN 0 ELSE RoundedAvg(values, fsum)

\* [c["power"] for c in channels]
Powers(channels) == [i \in 1..Len(channels) |-> channels[i].power]

HasSnr(c) == c.snr # <<>>

\* [c["snr"] for c in ds_channels if c["snr"] is not None]
Snrs(ds_channels) ==
    LET with_snr == SelectSeq(ds_channels, HasSnr)
    IN  [i \in 1..Len(with_snr) |-> with_snr[i].snr[1]]

\* the exception sum() raises on an item that is not a number
TypeError == [error |-> "TypeError"]

\* SumRaises of a sum without a start value: an empty list raises as well
SumRaisesOnEmpty(ds_channels) ==
    \/ ds_channels = <<>>
    \/ \E i \in 1..Len(ds_channels) :
          \/ ~IsNumber(ds_channels[i].correctable_errors)
          \/ ~IsNumber(ds_channels[i].uncorrectable_errors)

\* sum() of the error counts (lines 240-241) meets None or a str
SumRaises(ds_channels) ==
    \E i \in 1..Len(ds_channels) :
        \/ ~IsNumber(ds_channels[i].correctable_errors)
        \/ ~IsNumber(ds_channels[i].uncorrectable_errors)

\* analyze(data); fsum holds the float errors of the averages (FloatSumErrors).
\* The value is TypeError when the call raises it.
\* ds_channels after the two loops and the sort (lines 170-204)
ParseDownstream(d) ==
    LET ds == Get(d, "channelDs", EmptyDict)
        ds31 == Get(ds, "docsis31", <<>>)
        ds30 == Get(ds, "docsis30", <<>>)
    IN  SortById([i \in 1..Len(ds30) |-> DsRecord(ds30[i], "3.0")]
                 \o [i \in 1..Len(ds31) |-> DsRecord(ds31[i], "3.1")])

\* us_channels after the two loops and the sort (lines 207-233)
ParseUpstream(d) ==
    LET us == Get(d, "channelUs", EmptyDict)
        us31 == Get(us, "docsis31", <<>>)
        us30 == Get(us, "docsis30", <<>>)
    IN  SortById([i \in 1..Len(us30) |-> UsRecord(us30[i], "3.0")]
                 \o [i \in 1..Len(us31) |-> UsRecord(us31[i], "3.1")])

\* the summary and the returned dict (lines 236-299)
Summarise(ds_channels, us_channels, fsum) ==
    LET ds_powers == Powers(ds_channels)
        us_powers == Powers(us_channels)
        ds_snrs == Snrs(ds_channels)
        issues == HealthIssues(ds_channels, us_channels)
    IN  IF SumRaises(ds_channels) THEN TypeError
        ELSE [summary |-> [ds_total |-> Len(ds_channels),
                           us_total |-> Len(us_channels),
                           ds_power_min |-> StatMin(ds_powers),
                           ds_power_max |-> StatMax(ds_powers),
                           ds_power_avg |-> StatAvg(ds_powers, fsum["ds_power_avg"]),
                           us_power_min |-> StatMin(us_powers),
                           us_power_max |-> StatMax(us_powers),
                           us_power_avg |-> StatAvg(us_powers, fsum["us_power_avg"]),
                           ds_snr_min |-> StatMin(ds_snrs),
                           ds_snr_avg |-> StatAvg(ds_snrs, fsum["ds_snr_avg"]),
                           ds_correctable_errors |-> SumCorr(ds_channels),
                           ds_uncorrectable_errors |-> SumUncorr(ds_channels),
                           health |-> OverallHealth(issues),
                           health_issues |-> issues],
              ds_channels |-> ds_channels,
              us_channels |-> us_channels]

analyze(d, fsum) == Summarise(ParseDownstream(d), ParseUpstream(d), fsum)

-----------------------------------------------------------------------------
(* Threshold files *)

S_256_qam_lower == <<"2","5","6","-","q","a","m">>
S_4096qam_lower == <<"4","0","9","6","q","a","m">>
S_SC_QAM == <<"S","C","-","Q","A","M">>

\* a thresholds.json with per-modulation and per-version records
T_file ==
    [downstream_power |->
        (S_default :> S_256QAM
         @@ S_256QAM :> [good_min |-> -390, good_max |-> 1300,
                         immediate_min |-> -800, immediate_max |-> 2000]
         @@ S_4096QAM :> [good_min |-> -190, good_max |-> 1500,
                          immediate_min |-> -600, immediate_max |-> 2200]),
     upstream_power |->
        ("_default" :> "EuroDOCSIS 3.0"
         @@ "EuroDOCSIS 3.0" :> [good_min |-> 4110, good_max |-> 4700,
                                 immediate_min |-> 3500, immediate_max |-> 5300]
         @@ "DOCSIS 3.1" :> [good_min |-> 4410, good_max |-> 4800,
                             immediate_min |-> 3800, immediate_max |-> 5600]),
     snr |->
        (S_default :> S_256QAM
         @@ S_256QAM :> [good_min |-> 3310, immediate_min |-> 2900]
         @@ S_4096QAM :> [good_min |-> 4000, immediate_min |-> 3600]),
     errors |-> [uncorrectable_threshold |-> 10000]]

\* a thresholds.json whose critical band lies inside its good band
T_inverted ==
    [downstream_power |->
        (S_default :> S_256QAM
         @@ S_256QAM :> [good_min |-> -400, good_max |-> 1300,
                         immediate_min |-> -200, immediate_max |-> 1000]),
     upstream_power |->
        ("_default" :> "EuroDOCSIS 3.0"
         @@ "EuroDOCSIS 3.0" :> [good_min |-> 4100, good_max |-> 4700,
                                 immediate_min |-> 4300, immediate_max |-> 4500]),
     snr |->
        (S_default :> S_256QAM
         @@ S_256QAM :> [good_min |-> 2900, immediate_min |-> 3300]),
     errors |-> [uncorrectable_threshold |-> 5000]]

\* a thresholds.json with categories, keys and bounds missing
T_partial ==
    [downstream_power |->
        (S_4096QAM :> [good_max |-> 1000]
         @@ S_64QAM :> EmptyDict),
     upstream_power |->
        ("_default" :> "DOCSIS 3.1"
         @@ "DOCSIS 3.1" :> [immediate_max |-> 5000]),
     snr |->
        (S_default :> S_4096QAM
         @@ S_4096QAM :> [good_min |-> 4000])]

\* what json.load can return
ThresholdFiles == {T_file, T_inverted, T_partial}

-----------------------------------------------------------------------------
(* Readings *)

Versions == {"3.0", "3.1"}

\* every bound of the hardcoded fallbacks and of the threshold files
DsPowerBounds == {-800, -600, -400, -390, -200, -190, 1000, 1300, 1500, 2000, 2200}
UsPowerBounds == {3500, 3800, 4100, 4110, 4300, 4410, 4500, 4700, 4800, 5000, 5300, 5600}
SnrBounds == {2900, 3300, 3310, 3600, 4000}

Around(bounds) == UNION {{b - 1, b, b + 1} : b \in bounds}

\* the powerLevel entry of a reading: absent, None, "", junk, a numeric str or a float
PowerFields(points) ==
    {EmptyDict, [powerLevel |-> None], [powerLevel |-> StrEmpty], [powerLevel |-> StrJunk]}
    \cup {[powerLevel |-> StrNum(p)] : p \in points}
    \cup {[powerLevel |-> Float(p)] : p \in {0, 1301}}

\* the modulation and type entries of a reading
ModulationFields ==
    {EmptyDict,
     [modulation |-> S_256QAM],
     [modulation |-> S_256_qam_lower],
     [modulation |-> S_4096QAM],
     [modulation |-> <<>>, type |-> S_4096qam_lower],
     [type |-> S_SC_QAM]}

SnrValues ==
    {None, StrEmpty, StrJunk, StrNum(0), Float(0), Float(-3500), Float(2899)}
    \cup {StrNum(v) : v \in Around(SnrBounds)}
    \cup {StrNum(-v) : v \in Around(SnrBounds)}

\* the mse / mer entries of a reading
SnrFields ==
    {EmptyDict}
    \cup {[mse |-> v] : v \in SnrValues}
    \cup {[mer |-> v] : v \in SnrValues}

\* downstream readings handed to the classifier
DsChannelReadings ==
    {p @@ m @@ s : p \in PowerFields(Around(DsPowerBounds) \cup {0, 700, 701, 1200}),
                   m \in ModulationFields, s \in SnrFields}

\* upstream readings handed to the classifier
UsChannelReadings ==
    {p @@ m : p \in PowerFields(Around(UsPowerBounds) \cup {4200, 4900, 5200}),
              m \in {EmptyDict, [modulation |-> S_64QAM]}}

\* docsis_ver arguments of _assess_us_channel
UsVersionArgs == {"3.0", "3.1", "DOCSIS 3.1", "EuroDOCSIS 3.0", "4.0"}

-----------------------------------------------------------------------------
(* The threads of the running service *)

\* the threads that call analyze: the polling loop (main.py 104) and a
\* request handler of the web server serving POST /api/poll (web.py 456)
Callers == {"poll_thread", "api_poll"}

\* no call of analyze is under way
NoCall == [at |-> "idle", data |-> EmptyDict, result |-> EmptyDict]

NoFrame == [ds_channels |-> <<>>, us_channels |-> <<>>]

\* request handlers of the web server (waitress, threads=4) that serve
\* POST /api/poll side by side
Handlers == {"handler_1", "handler_2"}

\* no request is being served
NoRequest == [at |-> "idle", status |-> 0, early |-> FALSE]

\* seconds since the epoch when the service starts: more than the rate
\* limit's interval after the initial _last_manual_poll of 0.0
StartTime == 10

\* polling loops started in one run
MaxLoops == 3

\* the threading.Thread objects and the threading.Event objects of main
Loops == 1..MaxLoops

\* a Thread object that does not exist yet
Unborn == [at |-> "unborn", stop_event |-> 0]

\* the threads that call start_polling: main at startup (main.py 230) and
\* a request handler serving POST /api/config (web.py 355, main.py 218)
Starters == {"main", "api_config"}

NoStart == [at |-> "idle", target |-> 0]

ProcessIdle ==
    /\ calls = [c \in Callers |-> NoCall]
    /\ frames = [c \in Callers |-> NoFrame]
    /\ _prev = None
    /\ analysis = None
    /\ before = None
    /\ events = <<>>
    /\ checks = 0
    /\ now = StartTime
    /\ _last_manual_poll = 0
    /\ requests = [h \in Handlers |-> NoRequest]
    /\ modem_polls = <<>>
    /\ poll_thread = 0
    /\ poll_stop = 0
    /\ loops = [t \in Loops |-> Unborn]
    /\ stop_events = [e \in Loops |-> "unborn"]
    /\ starters = [s \in Starters |-> NoStart]

-----------------------------------------------------------------------------
(* Actions *)

NoVerdict == <<"", <<>>>>

InitVars ==
    /\ _thresholds = EmptyDict
    /\ pc = "import"
    /\ data = EmptyDict
    /\ ch = EmptyDict
    /\ docsis_ver = ""
    /\ direction = ""
    /\ verdict = NoVerdict
    /\ result = EmptyDict
    /\ lookup_key = <<>>
    /\ resolved = EmptyDict
    /\ ProcessIdle

\* json.load succeeds
LoadFile ==
    /\ pc = "import"
    /\ \E t \in ThresholdFiles : _thresholds' = t
    /\ pc' = "idle"
    /\ UNCHANGED <<data, ch, docsis_ver, direction, verdict, result, lookup_key, resolved, process_vars>>

\* FileNotFoundError or JSONDecodeError
LoadFails ==
    /\ pc = "import"
    /\ _thresholds' = EmptyDict
    /\ pc' = "idle"
    /\ UNCHANGED <<data, ch, docsis_ver, direction, verdict, result, lookup_key, resolved, process_vars>>

_load_thresholds == LoadFile \/ LoadFails

AssessDs ==
    /\ pc = "idle"
    /\ \E c \in DsChannelReadings, v \in Versions :
          /\ ch' = c
          /\ docsis_ver' = v
          /\ verdict' = _assess_ds_channel(c, v)
    /\ direction' = "ds"
    /\ pc' = "assessed"
    /\ UNCHANGED <<_thresholds, data, result, lookup_key, resolved, process_vars>>

AssessUs ==
    /\ pc = "idle"
    /\ \E c \in UsChannelReadings, v \in UsVersionArgs :
          /\ ch' = c
          /\ docsis_ver' = v
          /\ verdict' = _assess_us_channel(c, v)
    /\ direction' = "us"
    /\ pc' = "assessed"
    /\ UNCHANGED <<_thresholds, data, result, lookup_key, resolved, process_vars>>

InitChannel == InitVars

NextChannel == _load_thresholds \/ AssessDs \/ AssessUs

\* the classifiers, applied to one reading
SpecChannel == InitChannel /\ [][NextChannel]_vars

-----------------------------------------------------------------------------
(* Threshold configurations and lookups of the resolvers *)

\* a sub-mapping without the key, or with the key bound to one of values
Optional(key, values) == {EmptyDict} \cup {key :> v : v \in values}

\* a record without the entry f
Without(rec, f) == [k \in (DOMAIN rec) \ {f} |-> rec[k]]

\* a record of a category: complete, with a single bound missing, or empty
Records(complete) ==
    {complete, EmptyDict} \cup {Without(complete, f) : f \in DOMAIN complete}

\* the downstream_power sub-mappings of a thresholds.json
DsPowerCategories ==
    {d @@ a @@ b :
        d \in Optional(S_default, {S_256QAM, S_4096QAM, S_64QAM}),
        a \in Optional(S_256QAM, Records([good_min |-> -390, good_max |-> 1310,
                                          immediate_min |-> -810, immediate_max |-> 2010])),
        b \in Optional(S_4096QAM, {[good_min |-> -190, good_max |-> 1500,
                                    immediate_min |-> -600, immediate_max |-> 2200]})}

\* the upstream_power sub-mappings of a thresholds.json
UsPowerCategories ==
    {d @@ a @@ b :
        d \in Optional("_default", {"EuroDOCSIS 3.0", "DOCSIS 3.1", "DOCSIS 4.0"}),
        a \in Optional("EuroDOCSIS 3.0", Records([good_min |-> 4110, good_max |-> 4710,
                                                  immediate_min |-> 3510,
                                                  immediate_max |-> 5310])),
        b \in Optional("DOCSIS 3.1", {[good_min |-> 4410, good_max |-> 4800,
                                       immediate_min |-> 3800, immediate_max |-> 5600]})}

\* the snr sub-mappings of a thresholds.json
SnrCategories ==
    {d @@ a @@ b :
        d \in Optional(S_default, {S_256QAM, S_4096QAM, S_64QAM}),
        a \in Optional(S_256QAM, Records([good_min |-> 3310, immediate_min |-> 2910])),
        b \in Optional(S_4096QAM, {[good_min |-> 4000, immediate_min |-> 3600]})}

\* the contents of a thresholds.json: the files of ThresholdFiles, and files
\* that hold a single category, all others missing
ThresholdConfigurations ==
    ThresholdFiles
    \cup {[downstream_power |-> c] : c \in DsPowerCategories}
    \cup {[upstream_power |-> c] : c \in UsPowerCategories}
    \cup {[snr |-> c] : c \in SnrCategories}
    \cup {[errors |-> c] : c \in {EmptyDict, [uncorrectable_threshold |-> 5000]}}

\* None as a lookup key: not a str, so equal to no key of a category
NoneKey == <<"None">>

\* modulation arguments: normalised names, a name not normalised, "", None
ModulationKeys == {S_256QAM, S_4096QAM, S_64QAM, S_256_qam_lower, <<>>, NoneKey}

\* docsis_version arguments, None included (the str stands for no version)
VersionKeys == UsVersionArgs \cup {"None"}

ResolveDsPower ==
    /\ pc = "idle"
    /\ \E k \in ModulationKeys :
          /\ lookup_key' = k
          /\ resolved' = _get_ds_power_thresholds(k)
    /\ pc' = "resolved_ds_power"
    /\ UNCHANGED <<_thresholds, data, ch, docsis_ver, direction, verdict, result, process_vars>>

ResolveUsPower ==
    /\ pc = "idle"
    /\ \E k \in VersionKeys :
          /\ lookup_key' = k
          /\ resolved' = _get_us_power_thresholds(k)
    /\ pc' = "resolved_us_power"
    /\ UNCHANGED <<_thresholds, data, ch, docsis_ver, direction, verdict, result, process_vars>>

ResolveSnr ==
    /\ pc = "idle"
    /\ \E k \in ModulationKeys :
          /\ lookup_key' = k
          /\ resolved' = _get_snr_thresholds(k)
    /\ pc' = "resolved_snr"
    /\ UNCHANGED <<_thresholds, data, ch, docsis_ver, direction, verdict, result, process_vars>>

ResolveUncorr ==
    /\ pc = "idle"
    /\ resolved' = _get_uncorr_threshold
    /\ pc' = "resolved_uncorr"
    /\ UNCHANGED <<_thresholds, data, ch, docsis_ver, direction, verdict, result,
                   lookup_key, process_vars>>

\* json.load succeeds on one of the configurations
LoadConfiguration ==
    /\ pc = "import"
    /\ \E t \in ThresholdConfigurations : _thresholds' = t
    /\ pc' = "idle"
    /\ UNCHANGED <<data, ch, docsis_ver, direction, verdict, result, lookup_key, resolved, process_vars>>

InitResolve == InitVars

NextResolve ==
    \/ LoadConfiguration
    \/ LoadFails
    \/ ResolveDsPower
    \/ ResolveUsPower
    \/ ResolveSnr
    \/ ResolveUncorr

\* the threshold resolvers, applied to one lookup key
SpecResolve == InitResolve /\ [][NextResolve]_vars

-----------------------------------------------------------------------------
(* Payloads *)

\* readings in one payload
MaxChannels == 2

Ds30(id, power, mse, uncorr) ==
    [channelID |-> id, powerLevel |-> StrNum(power), modulation |-> S_256QAM,
     mse |-> StrNum(mse), corrErrors |-> PyInt(0), nonCorrErrors |-> PyInt(uncorr)]

Ds31(id, power, mer, uncorr) ==
    [channelID |-> id, powerLevel |-> StrNum(power), modulation |-> S_4096QAM,
     mer |-> StrNum(mer), corrErrors |-> PyInt(0), nonCorrErrors |-> PyInt(uncorr)]

Us(id, power) ==
    [channelID |-> id, powerLevel |-> StrNum(power), modulation |-> S_64QAM]

\* docsis30 downstream readings of a payload
Ds30Readings ==
    {Ds30(1, 200, -3500, 0), Ds30(1, 700, -3500, 0), Ds30(1, 701, -3500, 0),
     Ds30(2, 1200, -3500, 0),
     Ds30(2, 1500, -3500, 0), Ds30(3, 2100, -3500, 0), Ds30(3, 200, -3100, 0),
     Ds30(4, 200, -2700, 0), Ds30(5, 200, -3500, 5000), Ds30(6, 200, -3500, 10001),
     Ds30(1, 2100, -2200, 20000), Ds30(2, 1500, -2700, 0), Ds30(4, 2100, -3100, 5001),
     [channelID |-> 7, powerLevel |-> Float(320), modulation |-> S_256QAM,
      mse |-> Float(0), corrErrors |-> PyInt(0), nonCorrErrors |-> PyInt(0)]}

\* docsis31 downstream readings of a payload
Ds31Readings ==
    {Ds31(33, 500, 4100, 0), Ds31(33, 500, 3000, 0), Ds31(1, -900, 3800, 5000)}

\* docsis30 upstream readings of a payload
Us30Readings ==
    {Us(1, 4200), Us(1, 4900), Us(2, 5200), Us(2, 5600),
     [channelID |-> 3, modulation |-> S_64QAM]}

\* docsis31 upstream readings of a payload
Us31Readings == {Us(9, 4200), Us(9, 5000)}

\* payloads without a reading: the mapping and its parts may be absent
EmptyPayloads ==
    {EmptyDict,
     [channelDs |-> EmptyDict, channelUs |-> EmptyDict],
     [channelDs |-> [docsis30 |-> <<>>, docsis31 |-> <<>>],
      channelUs |-> [docsis30 |-> <<>>, docsis31 |-> <<>>]]}

Lists(d, dir) == Get(d, dir, EmptyDict)

ChannelList(d, dir, list) == Get(Lists(d, dir), list, <<>>)

ChannelCount(d) ==
    Len(ChannelList(d, "channelDs", "docsis30")) + Len(ChannelList(d, "channelDs", "docsis31"))
    + Len(ChannelList(d, "channelUs", "docsis30")) + Len(ChannelList(d, "channelUs", "docsis31"))

\* the driver appends one reading to one of the four lists
Collect(dir, list, readings) ==
    /\ pc = "idle"
    /\ ChannelCount(data) < MaxChannels
    /\ \E c \in readings :
          data' = SetKey(data, dir,
                         SetKey(Lists(data, dir), list, Append(ChannelList(data, dir, list), c)))
    /\ UNCHANGED <<_thresholds, pc, ch, docsis_ver, direction, verdict, result, lookup_key, resolved, process_vars>>

CollectDs30 == Collect("channelDs", "docsis30", Ds30Readings)
CollectDs31 == Collect("channelDs", "docsis31", Ds31Readings)
CollectUs30 == Collect("channelUs", "docsis30", Us30Readings)
CollectUs31 == Collect("channelUs", "docsis31", Us31Readings)

\* main.py hands the payload to analyze; the call returns or raises
Analyze ==
    /\ pc = "idle"
    /\ \E fsum \in FloatSumErrors : result' = analyze(data, fsum)
    /\ pc' = IF result' = TypeError THEN "raised" ELSE "analyzed"
    /\ UNCHANGED <<_thresholds, data, ch, docsis_ver, direction, verdict, lookup_key, resolved, process_vars>>

Init ==
    /\ _thresholds = EmptyDict
    /\ pc = "import"
    /\ data \in EmptyPayloads
    /\ ch = EmptyDict
    /\ docsis_ver = ""
    /\ direction = ""
    /\ verdict = NoVerdict
    /\ result = EmptyDict
    /\ lookup_key = <<>>
    /\ resolved = EmptyDict
    /\ ProcessIdle

Next ==
    \/ _load_thresholds
    \/ CollectDs30
    \/ CollectDs31
    \/ CollectUs30
    \/ CollectUs31
    \/ Analyze

\* analyze, applied to the payload a driver collected
Spec == Init /\ [][Next]_vars

-----------------------------------------------------------------------------
(* Payloads for the ordering and the statistics *)

\* readings in one payload of SpecSummary
MaxSummaryChannels == 3

Ds30c(id, power, mse, corr, uncorr) ==
    [Ds30(id, power, mse, uncorr) EXCEPT !.corrErrors = PyInt(corr)]

Ds31c(id, power, mer, corr, uncorr) ==
    [Ds31(id, power, mer, uncorr) EXCEPT !.corrErrors = PyInt(corr)]

\* channel ids out of order and repeated; powers and proxies on and off the
\* decimal ties x.x5; one reading without an SNR proxy
SummaryDs30Readings ==
    {Ds30c(3, 700, -3500, 100, 5), Ds30c(1, 710, -3505, 7, 0),
     Ds30c(1, 725, -3525, 0, 3), Ds30c(2, 735, -3618, 2000, 1),
     [Ds30c(2, -15, 0, 40, 2) EXCEPT !.mse = StrEmpty]}

SummaryDs31Readings ==
    {Ds31c(1, 1237, 3815, 11, 1), [Ds31c(2, 775, 0, 0, 0) EXCEPT !.mer = Float(0)]}

SummaryUs30Readings == {Us(2, 4505), Us(1, 4515), Us(1, 4200)}

SummaryUs31Readings == {Us(1, 4525)}

CollectSummary(dir, list, readings) ==
    /\ pc = "idle"
    /\ ChannelCount(data) < MaxSummaryChannels
    /\ \E c \in readings :
          data' = SetKey(data, dir,
                         SetKey(Lists(data, dir), list, Append(ChannelList(data, dir, list), c)))
    /\ UNCHANGED <<_thresholds, pc, ch, docsis_ver, direction, verdict, result, lookup_key, resolved, process_vars>>

CollectSummaryDs30 == CollectSummary("channelDs", "docsis30", SummaryDs30Readings)
CollectSummaryDs31 == CollectSummary("channelDs", "docsis31", SummaryDs31Readings)
CollectSummaryUs30 == CollectSummary("channelUs", "docsis30", SummaryUs30Readings)
CollectSummaryUs31 == CollectSummary("channelUs", "docsis31", SummaryUs31Readings)

\* the module is imported, with or without a thresholds file
InitImported ==
    /\ _thresholds \in {EmptyDict, T_file}
    /\ pc = "idle"
    /\ data = EmptyDict
    /\ ch = EmptyDict
    /\ docsis_ver = ""
    /\ direction = ""
    /\ verdict = NoVerdict
    /\ result = EmptyDict
    /\ lookup_key = <<>>
    /\ resolved = EmptyDict
    /\ ProcessIdle

NextSummary ==
    \/ CollectSummaryDs30
    \/ CollectSummaryDs31
    \/ CollectSummaryUs30
    \/ CollectSummaryUs31
    \/ Analyze

\* analyze, applied to payloads that exercise the ordering and the statistics
SpecSummary == InitImported /\ [][NextSummary]_vars

-----------------------------------------------------------------------------
(* Payloads with missing and malformed fields *)

\* downstream 3.0 readings: a well-formed one, and readings whose power,
\* mse or error counts are missing, None, "", not numeric or a float zero
FieldsDs30Readings ==
    {Ds30c(1, 350, -3500, 100, 5),
     [channelID |-> 2, modulation |-> S_256QAM],
     [channelID |-> 3, powerLevel |-> None, modulation |-> S_256QAM, mse |-> None,
      corrErrors |-> PyInt(1), nonCorrErrors |-> PyInt(2)],
     [channelID |-> 4, powerLevel |-> StrJunk, modulation |-> S_256QAM, mse |-> StrJunk,
      corrErrors |-> PyInt(1), nonCorrErrors |-> PyInt(2)],
     [channelID |-> 5, powerLevel |-> StrEmpty, modulation |-> S_256QAM, mse |-> StrEmpty,
      corrErrors |-> PyInt(1), nonCorrErrors |-> PyInt(2)],
     [channelID |-> 6, powerLevel |-> Float(320), modulation |-> S_256QAM, mse |-> Float(0),
      corrErrors |-> PyInt(0), nonCorrErrors |-> PyInt(0)],
     [channelID |-> 7, powerLevel |-> Float(-950), modulation |-> S_256QAM,
      mse |-> Float(-3100), corrErrors |-> PyInt(0), nonCorrErrors |-> PyInt(0)],
     [Ds30c(8, 350, -3500, 0, 0) EXCEPT !.corrErrors = None],
     [Ds30c(9, 350, -3500, 0, 0) EXCEPT !.nonCorrErrors = StrJunk]}

FieldsDs31Readings ==
    {Ds31c(2, 500, 4100, 3, 0),
     [channelID |-> 3, powerLevel |-> StrNum(500), modulation |-> S_4096QAM],
     [Ds31c(4, 500, 0, 3, 0) EXCEPT !.mer = StrJunk],
     [Ds31c(5, 500, 0, 3, 0) EXCEPT !.mer = Float(0)],
     [Ds31c(6, 500, 4100, 3, 0) EXCEPT !.nonCorrErrors = None]}

FieldsUs30Readings ==
    {Us(1, 4500),
     [channelID |-> 2, modulation |-> S_64QAM],
     [Us(3, 0) EXCEPT !.powerLevel = None],
     [Us(4, 0) EXCEPT !.powerLevel = StrJunk]}

FieldsUs31Readings == {Us(2, 4500), [Us(5, 0) EXCEPT !.powerLevel = StrEmpty]}

CollectFieldsDs30 == Collect("channelDs", "docsis30", FieldsDs30Readings)
CollectFieldsDs31 == Collect("channelDs", "docsis31", FieldsDs31Readings)
CollectFieldsUs30 == Collect("channelUs", "docsis30", FieldsUs30Readings)
CollectFieldsUs31 == Collect("channelUs", "docsis31", FieldsUs31Readings)

NextFields ==
    \/ CollectFieldsDs30
    \/ CollectFieldsDs31
    \/ CollectFieldsUs30
    \/ CollectFieldsUs31
    \/ Analyze

\* analyze, applied to payloads with missing and malformed fields
SpecFields == InitImported /\ [][NextFields]_vars

-----------------------------------------------------------------------------
(* Concurrent calls of analyze *)

\* payloads the drivers hand to analyze
CallPayloads ==
    {EmptyDict,
     [channelDs |-> [docsis30 |-> <<Ds30(2, 1500, -3500, 0), Ds30(1, 200, -3500, 0)>>],
      channelUs |-> [docsis30 |-> <<Us(1, 4200)>>]],
     [channelDs |-> [docsis30 |-> <<Ds30(4, 200, -2700, 0)>>,
                     docsis31 |-> <<Ds31(33, 500, 3000, 0)>>],
      channelUs |-> [docsis30 |-> <<Us(2, 5600)>>, docsis31 |-> <<Us(9, 5000)>>]],
     [channelDs |-> [docsis30 |-> <<Ds30c(3, 700, -3500, 100, 5), Ds30c(1, 725, -3525, 0, 3)>>]],
     [channelDs |-> [docsis30 |-> <<[Ds30c(8, 350, -3500, 0, 0) EXCEPT !.corrErrors = None]>>],
      channelUs |-> [docsis30 |-> <<Us(1, 4900)>>]]}

\* Frame with one module-level pair of lists for all calls
FrameShared(c) == "poll_thread"

\* the frame holding the local lists of the call of thread c: every call
\* has its own
Frame(c) == c

\* a thread calls analyze(data); ds_channels = [] (line 170)
Call(c) ==
    /\ pc = "idle"
    /\ calls[c].at \in {"idle", "returned", "raised"}
    /\ \E d \in CallPayloads :
          calls' = [calls EXCEPT ![c] = [at |-> "downstream", data |-> d, result |-> EmptyDict]]
    /\ frames' = [frames EXCEPT ![Frame(c)] = NoFrame]
    /\ UNCHANGED <<_thresholds, pc, data, ch, docsis_ver, direction, verdict, result,
                   lookup_key, resolved, detector_vars, web_vars, main_vars>>

\* lines 170-204: the downstream records, classified and sorted
CallDownstream(c) ==
    /\ calls[c].at = "downstream"
    /\ frames' = [frames EXCEPT ![Frame(c)].ds_channels =
                      SortById(@ \o ParseDownstream(calls[c].data))]
    /\ calls' = [calls EXCEPT ![c].at = "upstream"]
    /\ UNCHANGED <<_thresholds, pc, data, ch, docsis_ver, direction, verdict, result,
                   lookup_key, resolved, detector_vars, web_vars, main_vars>>

\* lines 207-233: the upstream records, classified and sorted
CallUpstream(c) ==
    /\ calls[c].at = "upstream"
    /\ frames' = [frames EXCEPT ![Frame(c)].us_channels =
                      SortById(@ \o ParseUpstream(calls[c].data))]
    /\ calls' = [calls EXCEPT ![c].at = "summary"]
    /\ UNCHANGED <<_thresholds, pc, data, ch, docsis_ver, direction, verdict, result,
                   lookup_key, resolved, detector_vars, web_vars, main_vars>>

\* lines 236-299: the summary; the call returns, or sum() raises
CallSummary(c) ==
    /\ calls[c].at = "summary"
    /\ \E fsum \in FloatSumErrors :
          LET ret == Summarise(frames[Frame(c)].ds_channels, frames[Frame(c)].us_channels, fsum)
          IN  calls' = [calls EXCEPT ![c].result = ret,
                                     ![c].at = IF ret = TypeError THEN "raised" ELSE "returned"]
    /\ UNCHANGED <<_thresholds, pc, data, ch, docsis_ver, direction, verdict, result,
                   lookup_key, resolved, frames, detector_vars, web_vars, main_vars>>

NextCalls ==
    \/ \E c \in Callers : Call(c)
    \/ \E c \in Callers : CallDownstream(c)
    \/ \E c \in Callers : CallUpstream(c)
    \/ \E c \in Callers : CallSummary(c)

\* the polling loop and a request handler calling analyze side by side
SpecCalls == InitImported /\ [][NextCalls]_vars

-----------------------------------------------------------------------------
(* Properties of the classifiers (SpecChannel) *)

Assessed == pc = "assessed"

\* the power of the assessed reading
AssessedPower == _parse_float(Get(ch, "powerLevel", None), 0)

\* the threshold lookup key of the assessed downstream reading
AssessedModulation == StripHyphens(Upper(ModulationOf(ch)))

\* the resolved power threshold record of the assessed reading
AssessedPowerThresholds ==
    IF direction = "ds" THEN _get_ds_power_thresholds(AssessedModulation)
    ELSE _get_us_power_thresholds(docsis_ver)

OutsideCritical(power, pt) == power < pt.crit_min \/ power > pt.crit_max

OutsideGood(power, pt) == power < pt.good_min \/ power > pt.good_max



\* C1: for every downstream or upstream reading and every resolved threshold
\* record, the detail holds "power critical" iff power < crit_min or
\* power > crit_max, and "power warning" iff it is not critical and
\* power < good_min or power > good_max; otherwise it holds no power issue.
\* A power equal to good_min or good_max (inside the critical bounds) is good.
C1_PowerClassification ==
    Assessed =>
        LET power == AssessedPower
            pt == AssessedPowerThresholds
        IN  /\ Contains(S_power_critical, verdict[2]) <=> OutsideCritical(power, pt)
            /\ Contains(S_power_warning, verdict[2])
                  <=> (~OutsideCritical(power, pt) /\ OutsideGood(power, pt))

\* a reading whose power equals good_max, inside the critical bounds, was
\* assessed and has no power issue
C1_Witness ==
    /\ Assessed
    /\ AssessedPower = AssessedPowerThresholds.good_max
    /\ ~OutsideCritical(AssessedPower, AssessedPowerThresholds)
    /\ ~Contains(S_power_critical, verdict[2])
    /\ ~Contains(S_power_warning, verdict[2])

\* C2 as stated: a power equal to crit_min or crit_max is classified critical
C2_BoundaryIsCritical ==
    (Assessed /\ AssessedPower \in {AssessedPowerThresholds.crit_min,
                                    AssessedPowerThresholds.crit_max})
        => Contains(S_power_critical, verdict[2])

\* C2 (amended): a power equal to crit_min or crit_max, and not beyond the
\* other critical bound, is not classified critical; it is "power warning"
\* iff it lies outside the good band and has no power issue otherwise.
C2_BoundaryNotCritical ==
    (/\ Assessed
     /\ AssessedPower \in {AssessedPowerThresholds.crit_min, AssessedPowerThresholds.crit_max}
     /\ AssessedPower >= AssessedPowerThresholds.crit_min
     /\ AssessedPower <= AssessedPowerThresholds.crit_max)
        => /\ ~Contains(S_power_critical, verdict[2])
           /\ Contains(S_power_warning, verdict[2])
                 <=> OutsideGood(AssessedPower, AssessedPowerThresholds)

\* a reading whose power equals crit_max was assessed and got "power warning"
C2_Witness ==
    /\ Assessed
    /\ AssessedPower = AssessedPowerThresholds.crit_max
    /\ AssessedPower >= AssessedPowerThresholds.crit_min
    /\ Contains(S_power_warning, verdict[2])
    /\ verdict[1] = "warning"

\* the expected categories of the assessed reading, from its power, its
\* SNR proxy and the resolved thresholds
PowerCategory ==
    IF OutsideCritical(AssessedPower, AssessedPowerThresholds) THEN "critical"
    ELSE IF OutsideGood(AssessedPower, AssessedPowerThresholds) THEN "warning"
    ELSE "none"

AssessedSnrThresholds == _get_snr_thresholds(AssessedModulation)

SnrCategory ==
    IF direction # "ds" \/ SnrVal(ch, docsis_ver) = <<>> THEN "none"
    ELSE IF SnrVal(ch, docsis_ver)[1] < AssessedSnrThresholds.crit_min THEN "critical"
    ELSE IF SnrVal(ch, docsis_ver)[1] < AssessedSnrThresholds.good_min THEN "warning"
    ELSE "none"

D_pc_sc == <<"p","o","w","e","r"," ","c","r","i","t","i","c","a","l"," ","+"," ","s","n","r"," ","c","r","i","t","i","c","a","l">>
D_pc_sw == <<"p","o","w","e","r"," ","c","r","i","t","i","c","a","l"," ","+"," ","s","n","r"," ","w","a","r","n","i","n","g">>
D_pw_sc == <<"p","o","w","e","r"," ","w","a","r","n","i","n","g"," ","+"," ","s","n","r"," ","c","r","i","t","i","c","a","l">>
D_pw_sw == <<"p","o","w","e","r"," ","w","a","r","n","i","n","g"," ","+"," ","s","n","r"," ","w","a","r","n","i","n","g">>

\* the detail string written out for every pair of categories
ExpectedDetail(p, s) ==
    CASE p = "critical" /\ s = "critical" -> D_pc_sc
      [] p = "critical" /\ s = "warning" -> D_pc_sw
      [] p = "critical" /\ s = "none" -> S_power_critical
      [] p = "warning" /\ s = "critical" -> D_pw_sc
      [] p = "warning" /\ s = "warning" -> D_pw_sw
      [] p = "warning" /\ s = "none" -> S_power_warning
      [] p = "none" /\ s = "critical" -> S_snr_critical
      [] p = "none" /\ s = "warning" -> S_snr_warning
      [] OTHER -> <<>>

\* C6: the verdict is "good" iff no issue was triggered, "critical" iff a
\* triggered issue is a critical one, "warning" otherwise; the detail is the
\* power issue then the SNR issue joined by " + ", empty when there is none.
C6_VerdictAndDetail ==
    Assessed =>
        /\ verdict[2] = ExpectedDetail(PowerCategory, SnrCategory)
        /\ verdict[1] = "good" <=> (PowerCategory = "none" /\ SnrCategory = "none")
        /\ verdict[1] = "critical" <=> (PowerCategory = "critical" \/ SnrCategory = "critical")
        /\ verdict[1] = "warning"
              <=> /\ "critical" \notin {PowerCategory, SnrCategory}
                  /\ "warning" \in {PowerCategory, SnrCategory}

\* a reading with a power warning and a critical SNR was assessed
C6_Witness ==
    /\ Assessed
    /\ PowerCategory = "warning"
    /\ SnrCategory = "critical"
    /\ verdict = <<"critical", D_pw_sc>>

\* the entry of the assessed downstream reading that carries its SNR proxy
ProxyField == IF docsis_ver = "3.0" THEN "mse" ELSE "mer"

\* present and non-empty: the entry exists and is neither None nor ""
PresentNonEmpty(c, f) ==
    /\ f \in DOMAIN c
    /\ c[f].py # "None"
    /\ ~(c[f].py = "str" /\ c[f].text = "empty")

\* present, non-empty and not a zero number
PresentNonZero(c, f) ==
    PresentNonEmpty(c, f) /\ ~(c[f].py = "float" /\ c[f].val = 0)

\* abs(mse) for "3.0", mer for "3.1"
ProxyValue ==
    IF docsis_ver = "3.0" THEN Abs(_parse_float(ch["mse"], 0)) ELSE _parse_float(ch["mer"], 0)

\* the assessed reading with the sign of its mse flipped
NegatedMse(c) ==
    IF "mse" \in DOMAIN c THEN [c EXCEPT !["mse"] = [@ EXCEPT !.val = -@]] ELSE c

SnrClassifiedBy(has_proxy) ==
    /\ Contains(S_snr_critical, verdict[2])
          <=> (has_proxy /\ ProxyValue < AssessedSnrThresholds.crit_min)
    /\ Contains(S_snr_warning, verdict[2])
          <=> /\ has_proxy
              /\ ProxyValue >= AssessedSnrThresholds.crit_min
              /\ ProxyValue < AssessedSnrThresholds.good_min
    /\ verdict = _assess_ds_channel(NegatedMse(ch), docsis_ver)

\* C7 as stated: the proxy is abs(mse) for "3.0" and mer for "3.1" whenever
\* the entry is present and non-empty; "snr critical" iff proxy < crit_min,
\* else "snr warning" iff proxy < good_min; no SNR issue without a proxy; the
\* sign of mse does not matter.
C7_SnrPresentNonEmpty ==
    (Assessed /\ direction = "ds") => SnrClassifiedBy(PresentNonEmpty(ch, ProxyField))

\* C7 (amended): as stated, with a proxy computed whenever the entry is
\* present, non-empty and not a zero number (a numeric 0 counts as absent).
C7_SnrPresentNonZero ==
    (Assessed /\ direction = "ds") => SnrClassifiedBy(PresentNonZero(ch, ProxyField))

\* a "3.0" reading with a positive mse below good_min got "snr warning"
C7_Witness ==
    /\ Assessed
    /\ direction = "ds"
    /\ docsis_ver = "3.0"
    /\ PresentNonZero(ch, "mse")
    /\ ch["mse"].val > 0
    /\ ch["mse"].val < AssessedSnrThresholds.good_min
    /\ Contains(S_snr_warning, verdict[2])

-----------------------------------------------------------------------------
(* Properties of analyze (Spec) *)

Analyzed == pc = "analyzed"

\* the hardcoded fallbacks alone decide: no threshold file was loaded
DefaultThresholds == _thresholds = EmptyDict

\* the payload holds exactly these four lists
PayloadIs(ds30, ds31, us30, us31) ==
    /\ ChannelList(data, "channelDs", "docsis30") = ds30
    /\ ChannelList(data, "channelDs", "docsis31") = ds31
    /\ ChannelList(data, "channelUs", "docsis30") = us30
    /\ ChannelList(data, "channelUs", "docsis31") = us31

IssuesOf(r) == r.summary.health_issues

HasIssue(tag) == \E i \in 1..Len(IssuesOf(result)) : IssuesOf(result)[i] = tag

\* the resolved power threshold record of a returned downstream record
DsRecordThresholds(rec) == _get_ds_power_thresholds(StripHyphens(Upper(rec.modulation)))

\* the resolved power threshold record of a returned upstream record
UsRecordThresholds(rec) == _get_us_power_thresholds(rec.docsis_version)

\* C3 as stated: under the default thresholds a downstream 256QAM channel at
\* 7.0 dBmV is good and one at 7.01 dBmV is "power warning", an upstream
\* channel at 49.0 dBmV is good, and a snapshot of one downstream channel at
\* 7.0 dBmV (mse -35) and one upstream channel at 49.0 dBmV has health "good".
C3_DefaultBoundaryGood ==
    (Analyzed /\ DefaultThresholds) =>
        /\ \A i \in 1..Len(result.ds_channels) :
              LET rec == result.ds_channels[i]
              IN  /\ (rec.modulation = S_256QAM /\ rec.power = 700)
                        => ~Contains(S_power_warning, rec.health_detail)
                  /\ (rec.modulation = S_256QAM /\ rec.power = 701)
                        => Contains(S_power_warning, rec.health_detail)
        /\ \A i \in 1..Len(result.us_channels) :
              result.us_channels[i].power = 4900 => result.us_channels[i].health = "good"
        /\ PayloadIs(<<Ds30(1, 700, -3500, 0)>>, <<>>, <<Us(1, 4900)>>, <<>>)
              => result.summary.health = "good"

\* C4 as stated: under the default thresholds a downstream channel at
\* 12.0 dBmV is "critical" with "power critical" in its detail, and the
\* summary is "poor" with ds_power_critical among its issues.
C4_DefaultCritical ==
    (Analyzed /\ DefaultThresholds) =>
        \A i \in 1..Len(result.ds_channels) :
            result.ds_channels[i].power = 1200 =>
                /\ result.ds_channels[i].health = "critical"
                /\ Contains(S_power_critical, result.ds_channels[i].health_detail)
                /\ result.summary.health = "poor"
                /\ HasIssue(S_ds_power_critical)

ExclusiveDetail(detail) ==
    /\ ~(Contains(S_power_critical, detail) /\ Contains(S_power_warning, detail))
    /\ ~(Contains(S_snr_critical, detail) /\ Contains(S_snr_warning, detail))

OnlyCriticalOutsideBoth(rec, pt) ==
    (OutsideCritical(rec.power, pt) /\ OutsideGood(rec.power, pt))
        => /\ Contains(S_power_critical, rec.health_detail)
           /\ ~Contains(S_power_warning, rec.health_detail)

\* C5: under every threshold configuration, nested or not, no returned
\* channel detail holds both "power critical" and "power warning", none
\* holds both "snr critical" and "snr warning", and a power outside both
\* bands is reported as critical only.
C5_Exclusive ==
    Analyzed =>
        /\ \A i \in 1..Len(result.ds_channels) :
              /\ ExclusiveDetail(result.ds_channels[i].health_detail)
              /\ OnlyCriticalOutsideBoth(result.ds_channels[i],
                                         DsRecordThresholds(result.ds_channels[i]))
        /\ \A i \in 1..Len(result.us_channels) :
              /\ ExclusiveDetail(result.us_channels[i].health_detail)
              /\ OnlyCriticalOutsideBoth(result.us_channels[i],
                                         UsRecordThresholds(result.us_channels[i]))

\* under a configuration whose good band is not inside its critical band, a
\* downstream power outside both bands was analyzed and reported as
\* "power critical" alone
C5_Witness ==
    /\ Analyzed
    /\ \E i \in 1..Len(result.ds_channels) :
          LET rec == result.ds_channels[i]
              pt == DsRecordThresholds(rec)
          IN  /\ pt.crit_max < pt.good_max
              /\ rec.power > pt.good_max
              /\ rec.health_detail = S_power_critical

\* some returned record of the list has sub in its detail
SomeDetail(sub, channels) ==
    \E i \in 1..Len(channels) : Contains(sub, channels[i].health_detail)

\* the critical tag iff some detail is critical, the warn tag iff none is
\* critical and some detail is a warning
TagsMirror(channels, crit, warn, crit_tag, warn_tag) ==
    /\ HasIssue(crit_tag) <=> SomeDetail(crit, channels)
    /\ HasIssue(warn_tag) <=> (~SomeDetail(crit, channels) /\ SomeDetail(warn, channels))
    /\ ~(HasIssue(crit_tag) /\ HasIssue(warn_tag))

\* C8: health_issues holds ds_power_critical iff some downstream detail holds
\* "power critical", and ds_power_warn iff none does and some downstream
\* detail holds "power warning"; likewise us_power_* over the upstream
\* details and snr_* over the downstream details; the two tags of a category
\* never appear together.
C8_IssueTags ==
    Analyzed =>
        /\ TagsMirror(result.ds_channels, S_power_critical, S_power_warning,
                      S_ds_power_critical, S_ds_power_warn)
        /\ TagsMirror(result.us_channels, S_power_critical, S_power_warning,
                      S_us_power_critical, S_us_power_warn)
        /\ TagsMirror(result.ds_channels, S_snr_critical, S_snr_warning,
                      S_snr_critical_tag, S_snr_warn_tag)

\* tags of all categories are present at once
C8_Witness ==
    /\ Analyzed
    /\ HasIssue(S_ds_power_critical)
    /\ HasIssue(S_us_power_warn)
    /\ HasIssue(S_snr_critical_tag)
    /\ HasIssue(S_uncorr_errors_high)

RECURSIVE SumNonCorr(_)
\* the nonCorrErrors of a list of readings, summed
SumNonCorr(readings) ==
    IF readings = <<>> THEN 0
    ELSE Get(readings[1], "nonCorrErrors", PyInt(0)).val + SumNonCorr(Tail(readings))

\* the uncorrectable errors of all downstream readings of the payload
PayloadUncorr ==
    SumNonCorr(ChannelList(data, "channelDs", "docsis30"))
    + SumNonCorr(ChannelList(data, "channelDs", "docsis31"))

\* C9: health_issues holds uncorr_errors_high iff the uncorrectable errors of
\* all downstream channels sum to more than the resolved threshold, whatever
\* other tags are present; a total equal to the threshold adds no tag.
C9_UncorrTag ==
    Analyzed => (HasIssue(S_uncorr_errors_high) <=> PayloadUncorr > _get_uncorr_threshold)

\* the total equals the threshold, a power tag is present and
\* uncorr_errors_high is not
C9_Witness ==
    /\ Analyzed
    /\ PayloadUncorr = _get_uncorr_threshold
    /\ HasIssue(S_ds_power_critical)
    /\ ~HasIssue(S_uncorr_errors_high)

\* C10: the summary health is "good" iff health_issues is empty, "poor" iff
\* some entry holds "critical", "marginal" otherwise; uncorr_errors_high
\* alone gives "marginal".
C10_OverallHealth ==
    Analyzed =>
        LET issues == IssuesOf(result)
            critical == \E i \in 1..Len(issues) : Contains(S_critical, issues[i])
        IN  /\ result.summary.health = "good" <=> issues = <<>>
            /\ result.summary.health = "poor" <=> critical
            /\ result.summary.health = "marginal" <=> (issues # <<>> /\ ~critical)
            /\ issues = <<S_uncorr_errors_high>> => result.summary.health = "marginal"

\* a snapshot whose only issue is uncorr_errors_high was analyzed
C10_Witness ==
    /\ Analyzed
    /\ IssuesOf(result) = <<S_uncorr_errors_high>>
    /\ result.summary.health = "marginal"

-----------------------------------------------------------------------------
(* Properties of the channel lists and the summary (SpecSummary) *)

\* the records of the docsis30 list followed by those of the docsis31 list
DsInputRecords ==
    [i \in 1..Len(ChannelList(data, "channelDs", "docsis30")) |->
        DsRecord(ChannelList(data, "channelDs", "docsis30")[i], "3.0")]
    \o [i \in 1..Len(ChannelList(data, "channelDs", "docsis31")) |->
        DsRecord(ChannelList(data, "channelDs", "docsis31")[i], "3.1")]

UsInputRecords ==
    [i \in 1..Len(ChannelList(data, "channelUs", "docsis30")) |->
        UsRecord(ChannelList(data, "channelUs", "docsis30")[i], "3.0")]
    \o [i \in 1..Len(ChannelList(data, "channelUs", "docsis31")) |->
        UsRecord(ChannelList(data, "channelUs", "docsis31")[i], "3.1")]

\* out holds the entries of input, each once, by ascending channel_id, the
\* entries of equal channel_id in their input order
StablySorted(out, input) ==
    /\ Len(out) = Len(input)
    /\ \E p \in Permutations(1..Len(input)) :
          /\ \A i \in 1..Len(input) : out[i] = input[p[i]]
          /\ \A i, j \in 1..Len(input) :
                i < j => \/ input[p[i]].channel_id < input[p[j]].channel_id
                         \/ /\ input[p[i]].channel_id = input[p[j]].channel_id
                            /\ p[i] < p[j]

\* no 3.1 record stands before a 3.0 record of the same channel_id
Version30First(out) ==
    \A i, j \in 1..Len(out) :
        (i < j /\ out[i].channel_id = out[j].channel_id)
            => ~(out[i].docsis_version = "3.1" /\ out[j].docsis_version = "3.0")

\* C11: ds_channels is a permutation of the records built from the 3.0 list
\* followed by the 3.1 list (none dropped, none duplicated, ds_total counts
\* the input readings), ascending by channel_id, records of equal channel_id
\* in input order and so 3.0 before 3.1; the same holds for us_channels.
C11_SortedPermutation ==
    Analyzed =>
        /\ StablySorted(result.ds_channels, DsInputRecords)
        /\ StablySorted(result.us_channels, UsInputRecords)
        /\ result.summary.ds_total = Len(DsInputRecords)
        /\ result.summary.us_total = Len(UsInputRecords)
        /\ Version30First(result.ds_channels)
        /\ Version30First(result.us_channels)

\* a 3.0 reading of id 3 first in the input, sorted behind a 3.0 and a 3.1
\* record that share id 1
C11_Witness ==
    /\ Analyzed
    /\ Len(result.ds_channels) = 3
    /\ ChannelList(data, "channelDs", "docsis30")[1].channelID = 3
    /\ result.ds_channels[1].channel_id = 1
    /\ result.ds_channels[1].docsis_version = "3.0"
    /\ result.ds_channels[2].channel_id = 1
    /\ result.ds_channels[2].docsis_version = "3.1"
    /\ result.ds_channels[3].channel_id = 3

\* r is a tenth nearest to num / den
NearestTenth(r, num, den) ==
    /\ r % 10 = 0
    /\ Abs(r * den - num) * 2 <= 10 * den

\* lo is the smallest of values rounded to one decimal, 0 without a value
RoundedMinimum(lo, values) ==
    IF values = <<>> THEN lo = 0
    ELSE \E v \in Range(values) :
            (\A w \in Range(values) : v <= w) /\ NearestTenth(lo, v, 1)

\* hi is the largest of values rounded to one decimal, 0 without a value
RoundedMaximum(hi, values) ==
    IF values = <<>> THEN hi = 0
    ELSE \E v \in Range(values) :
            (\A w \in Range(values) : v >= w) /\ NearestTenth(hi, v, 1)

\* avg is the mean of values rounded to one decimal, 0 without a value
RoundedMean(avg, values) ==
    IF values = <<>> THEN avg = 0
    ELSE NearestTenth(avg, Sum(values), Len(values))

\* the powers of the records of a direction
RecordPowers(channels) == [i \in 1..Len(channels) |-> channels[i].power]

SnrPresent(c) == c.snr # <<>>

\* the SNR values of the downstream records that have one
RecordSnrs(channels) ==
    [i \in 1..Len(SelectSeq(channels, SnrPresent)) |->
        SelectSeq(channels, SnrPresent)[i].snr[1]]

RECURSIVE ReadingCounts(_, _)
\* the counts under key of a list of readings, summed
ReadingCounts(readings, key) ==
    IF readings = <<>> THEN 0
    ELSE Get(readings[1], key, PyInt(0)).val + ReadingCounts(Tail(readings), key)

\* the counts under key of every downstream reading of the payload, summed
PayloadCounts(key) ==
    ReadingCounts(ChannelList(data, "channelDs", "docsis30"), key)
    + ReadingCounts(ChannelList(data, "channelDs", "docsis31"), key)

\* C12: per direction the summary's power min, max and avg are the minimum,
\* the maximum and the mean of the channel powers rounded to one decimal (0
\* for a direction without channels); ds_snr_min and ds_snr_avg are taken
\* over the downstream channels that have an SNR proxy (0 when none has);
\* ds_correctable_errors and ds_uncorrectable_errors are the sums of the
\* counts of all downstream channels.
C12_SummaryStatistics ==
    Analyzed =>
        /\ RoundedMinimum(result.summary.ds_power_min, RecordPowers(result.ds_channels))
        /\ RoundedMaximum(result.summary.ds_power_max, RecordPowers(result.ds_channels))
        /\ RoundedMean(result.summary.ds_power_avg, RecordPowers(result.ds_channels))
        /\ RoundedMinimum(result.summary.us_power_min, RecordPowers(result.us_channels))
        /\ RoundedMaximum(result.summary.us_power_max, RecordPowers(result.us_channels))
        /\ RoundedMean(result.summary.us_power_avg, RecordPowers(result.us_channels))
        /\ RoundedMinimum(result.summary.ds_snr_min, RecordSnrs(result.ds_channels))
        /\ RoundedMean(result.summary.ds_snr_avg, RecordSnrs(result.ds_channels))
        /\ result.summary.ds_correctable_errors = PayloadCounts("corrErrors")
        /\ result.summary.ds_uncorrectable_errors = PayloadCounts("nonCorrErrors")

\* two downstream channels, one of them without an SNR proxy, whose minimum
\* power and minimum SNR are changed by the rounding, with an upstream
\* channel and a non-zero count of correctable errors
C12_Witness ==
    /\ Analyzed
    /\ Len(result.ds_channels) = 2
    /\ Len(result.us_channels) = 1
    /\ \E i \in 1..2 : result.ds_channels[i].snr = <<>>
    /\ Len(RecordSnrs(result.ds_channels)) = 1
    /\ \A i \in 1..2 : result.summary.ds_power_min # result.ds_channels[i].power
    /\ result.summary.ds_snr_min # RecordSnrs(result.ds_channels)[1]
    /\ result.summary.ds_power_min < result.summary.ds_power_avg
    /\ result.summary.ds_power_avg < result.summary.ds_power_max
    /\ result.summary.us_power_avg # result.us_channels[1].power
    /\ result.summary.ds_correctable_errors > 0

-----------------------------------------------------------------------------
(* Properties of analyze on degenerate payloads *)

\* analyze was called and has returned or raised
Called == pc \in {"analyzed", "raised"}

\* the payload with every absent direction mapping and list made empty
Completed(d) ==
    [channelDs |-> [docsis30 |-> ChannelList(d, "channelDs", "docsis30"),
                    docsis31 |-> ChannelList(d, "channelDs", "docsis31")],
     channelUs |-> [docsis30 |-> ChannelList(d, "channelUs", "docsis30"),
                    docsis31 |-> ChannelList(d, "channelUs", "docsis31")]]

\* the result for a payload without channels
NoChannelsResult ==
    [summary |-> [ds_total |-> 0, us_total |-> 0,
                  ds_power_min |-> 0, ds_power_max |-> 0, ds_power_avg |-> 0,
                  us_power_min |-> 0, us_power_max |-> 0, us_power_avg |-> 0,
                  ds_snr_min |-> 0, ds_snr_avg |-> 0,
                  ds_correctable_errors |-> 0, ds_uncorrectable_errors |-> 0,
                  health |-> "good", health_issues |-> <<>>],
     ds_channels |-> <<>>,
     us_channels |-> <<>>]

\* C13: analyze of the empty mapping, or of a payload in which any of the
\* four channel lists or either direction mapping is absent or empty, raises
\* nothing (an absent part counts as an empty one); without any channel the
\* result has ds_total 0, us_total 0, every min / max / avg 0, empty channel
\* lists, no health issue and health 'good'.
C13_EmptyPayload ==
    Called =>
        /\ (\E dir \in {"channelDs", "channelUs"}, list \in {"docsis30", "docsis31"} :
                ChannelList(data, dir, list) = <<>>)
              => /\ pc = "analyzed"
                 /\ \E fsum \in FloatSumErrors : result = analyze(Completed(data), fsum)
        /\ ChannelCount(data) = 0 => pc = "analyzed" /\ result = NoChannelsResult

\* analyze has returned for the empty mapping
C13_Witness ==
    /\ pc = "analyzed"
    /\ data = EmptyDict
    /\ result.summary.ds_total = 0
    /\ result.summary.health = "good"

-----------------------------------------------------------------------------
(* Properties of analyze on missing and malformed fields (SpecFields) *)

\* the number the entry f of reading c denotes, 0 when it is missing or
\* denotes none
NumericOrZero(c, f) ==
    IF /\ f \in DOMAIN c
       /\ \/ c[f].py \in {"float", "int"}
          \/ c[f].py = "str" /\ c[f].text = "num"
    THEN c[f].val
    ELSE 0

\* the downstream readings of the payload, each with the version of its list
DsInputReadings ==
    [i \in 1..Len(ChannelList(data, "channelDs", "docsis30")) |->
        [reading |-> ChannelList(data, "channelDs", "docsis30")[i], ver |-> "3.0"]]
    \o [i \in 1..Len(ChannelList(data, "channelDs", "docsis31")) |->
        [reading |-> ChannelList(data, "channelDs", "docsis31")[i], ver |-> "3.1"]]

UsInputReadings ==
    [i \in 1..Len(ChannelList(data, "channelUs", "docsis30")) |->
        [reading |-> ChannelList(data, "channelUs", "docsis30")[i], ver |-> "3.0"]]
    \o [i \in 1..Len(ChannelList(data, "channelUs", "docsis31")) |->
        [reading |-> ChannelList(data, "channelUs", "docsis31")[i], ver |-> "3.1"]]

\* each record stems from one reading and carries its id, its version and
\* its power, 0 replacing a missing or non-numeric power
RecordsCarryPower(out, input) ==
    /\ Len(out) = Len(input)
    /\ \E p \in Permutations(1..Len(input)) :
          \A i \in 1..Len(input) :
              /\ out[i].channel_id = Get(input[p[i]].reading, "channelID", 0)
              /\ out[i].docsis_version = input[p[i]].ver
              /\ out[i].power = NumericOrZero(input[p[i]].reading, "powerLevel")
              /\ out[i].health \in {"good", "warning", "critical"}

\* C14: no exception leaves analyze because of malformed or missing channel
\* fields: a power level, SNR proxy or error count that is missing or not
\* numeric is replaced by 0.0 / 0, and every reading is still classified.
C14_MalformedTolerated ==
    Called =>
        /\ pc = "analyzed"
        /\ RecordsCarryPower(result.ds_channels, DsInputReadings)
        /\ RecordsCarryPower(result.us_channels, UsInputReadings)
        /\ result.summary.ds_correctable_errors = PayloadCounts("corrErrors")
        /\ result.summary.ds_uncorrectable_errors = PayloadCounts("nonCorrErrors")

\* the SNR proxy of a downstream reading: abs(mse) for "3.0", mer for "3.1"
ProxyOf(c, ver) ==
    IF ver = "3.0" THEN Abs(NumericOrZero(c, "mse")) ELSE NumericOrZero(c, "mer")

\* each downstream record carries the version of its list, the parsed power
\* and the proxy of its reading, null when Present says the proxy is absent
RecordsCarry(Present(_, _)) ==
    Analyzed =>
        /\ Len(result.ds_channels) = Len(DsInputReadings)
        /\ \E p \in Permutations(1..Len(DsInputReadings)) :
              \A i \in 1..Len(DsInputReadings) :
                  LET c == DsInputReadings[p[i]].reading
                      ver == DsInputReadings[p[i]].ver
                      rec == result.ds_channels[i]
                  IN  /\ rec.channel_id = Get(c, "channelID", 0)
                      /\ rec.docsis_version = ver
                      /\ rec.power = NumericOrZero(c, "powerLevel")
                      /\ rec.snr = IF Present(c, IF ver = "3.0" THEN "mse" ELSE "mer")
                                       THEN <<ProxyOf(c, ver)>>
                                       ELSE <<>>

\* the reading of the example: power 3.5, mse -35.0, 100 / 5 errors
ExampleReading == Ds30c(1, 350, -3500, 100, 5)

\* the example's record has power 3.5, snr 35.0 and the verdict good
ExampleRecord ==
    (Analyzed /\ DefaultThresholds
        /\ ChannelList(data, "channelDs", "docsis30") = <<ExampleReading>>
        /\ ChannelList(data, "channelDs", "docsis31") = <<>>)
    => /\ Len(result.ds_channels) = 1
       /\ result.ds_channels[1].docsis_version = "3.0"
       /\ result.ds_channels[1].power = 350
       /\ result.ds_channels[1].snr = <<3500>>
       /\ result.ds_channels[1].health = "good"

\* C20 as stated: every downstream record carries docsis_version "3.0" or
\* "3.1" according to its list, the parsed power and an snr equal to abs(mse)
\* for 3.0 and to mer for 3.1, null when the proxy entry is absent (missing,
\* None or ""); power 3.5 with mse -35.0 gives power 3.5, snr 35.0, good.
C20_RecordFieldsNonEmpty == RecordsCarry(PresentNonEmpty) /\ ExampleRecord

\* C20 (amended): as stated, with snr null also when the proxy entry is a
\* numeric zero.
C20_RecordFieldsNonZero == RecordsCarry(PresentNonZero) /\ ExampleRecord

\* the example reading next to a 3.0 reading whose mse is the float 0.0: one
\* record with snr 35.0 and verdict good, one record without snr
C20_Witness ==
    /\ Analyzed
    /\ DefaultThresholds
    /\ Len(ChannelList(data, "channelDs", "docsis30")) = 2
    /\ ChannelList(data, "channelDs", "docsis30")[1] = ExampleReading
    /\ Get(ChannelList(data, "channelDs", "docsis30")[2], "mse", None) = Float(0)
    /\ result.ds_channels[1].power = 350
    /\ result.ds_channels[1].snr = <<3500>>
    /\ result.ds_channels[1].health = "good"
    /\ result.ds_channels[2].snr = <<>>

-----------------------------------------------------------------------------
(* Properties of the threshold resolvers (SpecResolve) *)

PowerBounds == {"good_min", "good_max", "crit_min", "crit_max"}

SnrBoundNames == {"good_min", "crit_min"}

\* rec holds exactly the bounds of names, each a number
FullyPopulated(rec, names) ==
    /\ DOMAIN rec = names
    /\ \A f \in names : rec[f] \in Int

SelectedRecord(sub) ==
    IF lookup_key \in DOMAIN sub THEN sub[lookup_key]
    ELSE IF S_default \in DOMAIN sub
         THEN (IF sub[S_default] \in DOMAIN sub THEN sub[sub[S_default]] ELSE EmptyDict)
         ELSE (IF S_256QAM \in DOMAIN sub THEN sub[S_256QAM] ELSE EmptyDict)

\* the entry f of rec when present, else constant
BoundOr(rec, f, constant) == IF f \in DOMAIN rec THEN rec[f] ELSE constant

\* the category sub-mapping, empty when the category is missing
Category(name) == IF name \in DOMAIN _thresholds THEN _thresholds[name] ELSE EmptyDict

\* C16: downstream power and SNR thresholds come from the record under the
\* lookup key when the category's sub-mapping has that key, else from the
\* record named by its "_default" entry ("256QAM" when absent), else from
\* an empty record; each bound is the record's value when present and else
\* the constant (power good -4.0..13.0, critical -8.0..20.0; SNR good_min
\* 33.0, crit_min 29.0), independently per bound.
C16_ModulationResolution ==
    /\ pc = "resolved_ds_power" =>
          LET rec == SelectedRecord(Category("downstream_power"))
          IN  resolved = [good_min |-> BoundOr(rec, "good_min", -400),
                          good_max |-> BoundOr(rec, "good_max", 1300),
                          crit_min |-> BoundOr(rec, "immediate_min", -800),
                          crit_max |-> BoundOr(rec, "immediate_max", 2000)]
    /\ pc = "resolved_snr" =>
          LET rec == SelectedRecord(Category("snr"))
          IN  resolved = [good_min |-> BoundOr(rec, "good_min", 3300),
                          crit_min |-> BoundOr(rec, "immediate_min", 2900)]

\* a modulation the sub-mapping does not hold, a "_default" entry naming
\* 4096QAM, and next to it a 256QAM record that is not used
C16_Witness ==
    /\ pc = "resolved_ds_power"
    /\ lookup_key = S_64QAM
    /\ "downstream_power" \in DOMAIN _thresholds
    /\ DOMAIN _thresholds.downstream_power = {S_default, S_256QAM, S_4096QAM}
    /\ _thresholds.downstream_power[S_default] = S_4096QAM
    /\ resolved = [good_min |-> -190, good_max |-> 1500, crit_min |-> -600,
                   crit_max |-> 2200]

\* the record a version lookup selects in the upstream sub-mapping sub: the
\* one under the canonical key of the version when sub holds it, else the
\* one named by "_default" ("EuroDOCSIS 3.0" when absent), else an empty one
SelectedVersionRecord(sub) ==
    LET canonical == IF lookup_key \in {"3.1", "DOCSIS 3.1"} THEN {"DOCSIS 3.1"}
                     ELSE IF lookup_key \in {"3.0", "EuroDOCSIS 3.0"}
                          THEN {"EuroDOCSIS 3.0"}
                          ELSE {}
        named == IF "_default" \in DOMAIN sub THEN sub["_default"] ELSE "EuroDOCSIS 3.0"
    IN  IF canonical \cap DOMAIN sub # {} THEN sub[CHOOSE k \in canonical : TRUE]
        ELSE IF named \in DOMAIN sub THEN sub[named]
        ELSE EmptyDict

\* C17: upstream power thresholds are resolved by version: "3.1" and
\* "DOCSIS 3.1" use the record under "DOCSIS 3.1", "3.0" and "EuroDOCSIS 3.0"
\* the record under "EuroDOCSIS 3.0", every other value (None included) and
\* a version whose record the category lacks use the record of the category
\* default; a missing bound is 41.0, 47.0 (good) or 35.0, 53.0 (critical).
C17_VersionResolution ==
    pc = "resolved_us_power" =>
        LET rec == SelectedVersionRecord(Category("upstream_power"))
        IN  resolved = [good_min |-> BoundOr(rec, "good_min", 4100),
                        good_max |-> BoundOr(rec, "good_max", 4700),
                        crit_min |-> BoundOr(rec, "immediate_min", 3500),
                        crit_max |-> BoundOr(rec, "immediate_max", 5300)]

\* "3.1" resolved to the record under "DOCSIS 3.1" although "_default" names
\* "EuroDOCSIS 3.0", whose record is present too
C17_Witness ==
    /\ pc = "resolved_us_power"
    /\ lookup_key = "3.1"
    /\ "upstream_power" \in DOMAIN _thresholds
    /\ DOMAIN _thresholds.upstream_power = {"_default", "EuroDOCSIS 3.0", "DOCSIS 3.1"}
    /\ _thresholds.upstream_power["_default"] = "EuroDOCSIS 3.0"
    /\ resolved = [good_min |-> 4410, good_max |-> 4800, crit_min |-> 3800,
                   crit_max |-> 5600]

-----------------------------------------------------------------------------
(* Rounding of the result (SpecSummary) *)

SummaryStatistics ==
    {"ds_power_min", "ds_power_max", "ds_power_avg", "us_power_min", "us_power_max",
     "us_power_avg", "ds_snr_min", "ds_snr_avg"}

\* a number of hundredths with one decimal place
OneDecimal(x) == x % 10 = 0

StatisticsRounded == \A f \in SummaryStatistics : OneDecimal(result.summary[f])

\* C19 as stated: every non-integer numeric value of the result, the power
\* and the snr of each channel record and the summary statistics alike, has
\* one decimal place.
C19_AllRounded ==
    Analyzed =>
        /\ StatisticsRounded
        /\ \A i \in 1..Len(result.ds_channels) :
              /\ OneDecimal(result.ds_channels[i].power)
              /\ result.ds_channels[i].snr # <<>> => OneDecimal(result.ds_channels[i].snr[1])
        /\ \A i \in 1..Len(result.us_channels) : OneDecimal(result.us_channels[i].power)

\* C19 (amended): every summary statistic has one decimal place; the power
\* of a channel record is the parsed power of its reading, not rounded.
C19_StatisticsRounded ==
    Analyzed =>
        /\ StatisticsRounded
        /\ RecordsCarryPower(result.ds_channels, DsInputReadings)
        /\ RecordsCarryPower(result.us_channels, UsInputReadings)

\* one downstream reading of 7.25 dBmV and mse -35.25: the record keeps
\* both, the summary has 7.2 and 35.2
C19_Witness ==
    /\ Analyzed
    /\ Len(result.ds_channels) = 1
    /\ result.ds_channels[1].power = 725
    /\ result.ds_channels[1].snr = <<3525>>
    /\ result.summary.ds_power_min = 720
    /\ result.summary.ds_power_avg = 720
    /\ result.summary.ds_snr_min = 3520

-----------------------------------------------------------------------------
(* The summary health against the per-channel verdicts (Spec) *)

\* the channel records of a result, downstream first
ChannelRecords(r) == r.ds_channels \o r.us_channels

SomeRecordHas(r, health) ==
    \E i \in 1..Len(ChannelRecords(r)) : ChannelRecords(r)[i].health = health

\* C27: the summary health is "poor" iff at least one record of ds_channels
\* or us_channels has health "critical"; a summary health "good" implies that
\* every channel record has health "good" and that the uncorrectable total
\* does not exceed the uncorrectable-errors threshold.
C27_HealthMirrorsChannels ==
    Analyzed =>
        /\ result.summary.health = "poor" <=> SomeRecordHas(result, "critical")
        /\ result.summary.health = "good" =>
              /\ \A i \in 1..Len(ChannelRecords(result)) :
                    ChannelRecords(result)[i].health = "good"
              /\ result.summary.ds_uncorrectable_errors <= _get_uncorr_threshold

\* a poor summary caused by an SNR-critical downstream channel only, next to
\* a good upstream channel
C27_Witness ==
    /\ Analyzed
    /\ PayloadIs(<<Ds30(4, 200, -2700, 0)>>, <<>>, <<Us(1, 4200)>>, <<>>)
    /\ result.summary.health = "poor"
    /\ result.ds_channels[1].health = "critical"
    /\ result.us_channels[1].health = "good"

-----------------------------------------------------------------------------
(* Missing and non-numeric power levels (SpecFields) *)

\* the powerLevel entry of reading c is absent, None or a str that is no number
MalformedPower(c) ==
    \/ "powerLevel" \notin DOMAIN c
    \/ c["powerLevel"].py = "None"
    \/ c["powerLevel"].py = "str" /\ c["powerLevel"].text # "num"

\* the payload d with the float 0.0 as the power of every such reading
ZeroedPower(d) ==
    [dir \in DOMAIN d |->
        [list \in DOMAIN d[dir] |->
            [i \in 1..Len(d[dir][list]) |->
                IF MalformedPower(d[dir][list][i])
                    THEN SetKey(d[dir][list][i], "powerLevel", Float(0))
                    ELSE d[dir][list][i]]]]

\* the record out stems from a reading of input with a malformed power
FromMalformed(out, input) ==
    \E j \in 1..Len(input) :
        /\ MalformedPower(input[j].reading)
        /\ out.channel_id = Get(input[j].reading, "channelID", 0)
        /\ out.docsis_version = input[j].ver

\* C28: a reading whose power is missing or not numeric is classified exactly
\* as a reading with power 0.0 and contributes 0.0 to the power statistics:
\* the call ends as it does on the payload with 0.0 in its place; under the
\* hardcoded default thresholds such a downstream channel has no power issue,
\* such an upstream channel is "power critical" and the summary health is
\* "poor".
C28_MissingPowerIsZero ==
    /\ Called => \E fsum \in FloatSumErrors : result = analyze(ZeroedPower(data), fsum)
    /\ Analyzed /\ DefaultThresholds =>
          /\ \A i \in 1..Len(result.ds_channels) :
                FromMalformed(result.ds_channels[i], DsInputReadings) =>
                    /\ result.ds_channels[i].power = 0
                    /\ ~Contains(S_power_critical, result.ds_channels[i].health_detail)
                    /\ ~Contains(S_power_warning, result.ds_channels[i].health_detail)
          /\ \A i \in 1..Len(result.us_channels) :
                FromMalformed(result.us_channels[i], UsInputReadings) =>
                    /\ result.us_channels[i].power = 0
                    /\ result.us_channels[i].health = "critical"
                    /\ Contains(S_power_critical, result.us_channels[i].health_detail)
                    /\ result.summary.health = "poor"

\* a downstream reading with the power None and an upstream reading with a
\* non-numeric power, analyzed under the hardcoded defaults
C28_Witness ==
    /\ Analyzed
    /\ DefaultThresholds
    /\ Len(ChannelList(data, "channelDs", "docsis30")) = 1
    /\ "powerLevel" \in DOMAIN ChannelList(data, "channelDs", "docsis30")[1]
    /\ ChannelList(data, "channelDs", "docsis30")[1]["powerLevel"] = None
    /\ Len(ChannelList(data, "channelUs", "docsis30")) = 1
    /\ Get(ChannelList(data, "channelUs", "docsis30")[1], "powerLevel", None) = StrJunk
    /\ result.ds_channels[1].health = "good"
    /\ result.us_channels[1].health = "critical"
    /\ result.summary.us_power_min = 0
    /\ result.summary.health = "poor"

-----------------------------------------------------------------------------
(* Normalisation of the modulation lookup key (SpecChannel) *)

LowerChar(c) ==
    IF \E i \in 1..26 : UpperCase[i] = c
        THEN LowerCase[CHOOSE i \in 1..26 : UpperCase[i] = c]
        ELSE c

\* the letters and digits of s, in lower case
Folded(s) == [i \in 1..Len(StripHyphens(s)) |-> LowerChar(StripHyphens(s)[i])]

\* the modulation name a reading with the entries m carries: its modulation,
\* or its type when the modulation is missing or empty
NameOf(m) ==
    IF "modulation" \in DOMAIN m /\ m["modulation"] # <<>> THEN m["modulation"]
    ELSE IF "type" \in DOMAIN m THEN m["type"]
    ELSE <<>>

\* the reading c with the modulation and type entries m
WithModulation(c, m) ==
    m @@ [k \in (DOMAIN c) \ {"modulation", "type"} |-> c[k]]

\* C22: the lookup key of a downstream reading is its modulation (its type
\* when the modulation is missing or empty) uppercased and without hyphens:
\* the thresholds applied are those resolved for that key, and a reading
\* that differs only in the letter case or the hyphenation of that name gets
\* the same verdict and detail, under every threshold configuration.
C22_KeyNormalised ==
    Assessed /\ direction = "ds" =>
        /\ verdict =
              <<_channel_health(
                    PowerIssues(AssessedPower, _get_ds_power_thresholds(AssessedModulation))
                    \o SnrIssues(SnrVal(ch, docsis_ver), _get_snr_thresholds(AssessedModulation))),
                _health_detail(
                    PowerIssues(AssessedPower, _get_ds_power_thresholds(AssessedModulation))
                    \o SnrIssues(SnrVal(ch, docsis_ver), _get_snr_thresholds(AssessedModulation)))>>
        /\ \A m \in ModulationFields :
              Folded(NameOf(m)) = Folded(NameOf(ch)) =>
                  _assess_ds_channel(WithModulation(ch, m), docsis_ver) = verdict

\* a reading of type "4096-qam", critical by the 4096QAM record of the file
\* and good by its default record
C22_Witness ==
    /\ Assessed
    /\ direction = "ds"
    /\ _thresholds = T_file
    /\ NameOf(ch) = S_4096qam_lower
    /\ "modulation" \in DOMAIN ch
    /\ verdict[1] = "critical"
    /\ _assess_ds_channel(WithModulation(ch, [modulation |-> S_256QAM]), docsis_ver)[1] = "good"

-----------------------------------------------------------------------------
(* Side effects of analyze (SpecCalls) *)

CallEnded(c) == calls[c].at \in {"returned", "raised"}

\* what the call of thread c returns when no other call runs
Alone(c) == {analyze(calls[c].data, fsum) : fsum \in FloatSumErrors}

\* a step of a call under way leaves the threshold table and the arguments
\* of all calls as they are
CallFrame ==
    /\ _thresholds' = _thresholds
    /\ \A c \in Callers : calls[c].at # "idle" /\ ~CallEnded(c) => calls'[c].data = calls[c].data

\* C21: analyze has no side effect on shared state: no step of a call
\* changes the process-wide threshold table or an input payload, so under
\* every interleaving of the calls of two threads each call ends with the
\* result the same call has when it runs alone.
C21_NoSharedEffect ==
    /\ [](\A c \in Callers : CallEnded(c) => calls[c].result \in Alone(c))
    /\ [][CallFrame]_vars

\* both threads have returned, with different results, from calls that ran
\* interleaved
C21_Witness ==
    /\ calls["poll_thread"].at = "returned"
    /\ calls["api_poll"].at = "returned"
    /\ calls["poll_thread"].result # calls["api_poll"].result
    /\ Len(calls["poll_thread"].result.ds_channels) = 2
    /\ Len(calls["api_poll"].result.us_channels) = 2

-----------------------------------------------------------------------------
(* Event detection (src/app/event_detector.py) *)

\* thresholds of the detector, in hundredths
POWER_SHIFT_THRESHOLD == 200
SNR_WARN_THRESHOLD == 3000
SNR_CRIT_THRESHOLD == 2500
UNCORR_SPIKE_THRESHOLD == 1000

\* An event is a record of its severity, its type and its details; the
\* timestamp and the message, a formatting of the details, are left out.
Event(severity, event_type, details) ==
    [severity |-> severity, event_type |-> event_type, details |-> details]

\* health_order.get(health, 0)
HealthLevel(health) ==
    CASE health = "good" -> 0
      [] health = "marginal" -> 1
      [] health = "poor" -> 2
      [] OTHER -> 0

\* _check_health naming every degradation critical
_check_health_all_critical(cur, prev) ==
    IF cur.health = prev.health THEN <<>>
    ELSE IF HealthLevel(cur.health) > HealthLevel(prev.health)
        THEN <<Event("critical", "health_change",
                     [prev |-> prev.health, current |-> cur.health])>>
    ELSE <<Event("info", "health_change", [prev |-> prev.health, current |-> cur.health])>>

\* the events _check_health appends; cur and prev are the two summaries
_check_health(cur, prev) ==
    IF cur.health = prev.health THEN <<>>
    ELSE IF HealthLevel(cur.health) > HealthLevel(prev.health)
        THEN <<Event(IF cur.health = "poor" THEN "critical" ELSE "warning", "health_change",
                     [prev |-> prev.health, current |-> cur.health])>>
    ELSE <<Event("info", "health_change", [prev |-> prev.health, current |-> cur.health])>>

\* The averages are floats with one decimal place; the subtraction is taken
\* exactly, as it is for the averages of the snapshots below, all of them
\* multiples of 0.5.
_check_power(cur, prev) ==
    (IF Abs(cur.ds_power_avg - prev.ds_power_avg) > POWER_SHIFT_THRESHOLD
        THEN <<Event("warning", "power_change",
                     [direction |-> "downstream", prev |-> prev.ds_power_avg,
                      current |-> cur.ds_power_avg])>>
        ELSE <<>>)
    \o (IF Abs(cur.us_power_avg - prev.us_power_avg) > POWER_SHIFT_THRESHOLD
        THEN <<Event("warning", "power_change",
                     [direction |-> "upstream", prev |-> prev.us_power_avg,
                      current |-> cur.us_power_avg])>>
        ELSE <<>>)

\* _check_snr with two independent ifs instead of if / elif
_check_snr_both(cur, prev) ==
    IF cur.ds_snr_min = prev.ds_snr_min THEN <<>>
    ELSE (IF cur.ds_snr_min < SNR_CRIT_THRESHOLD /\ prev.ds_snr_min >= SNR_CRIT_THRESHOLD
             THEN <<Event("critical", "snr_change",
                          [prev |-> prev.ds_snr_min, current |-> cur.ds_snr_min,
                           threshold |-> "critical"])>>
             ELSE <<>>)
         \o (IF cur.ds_snr_min < SNR_WARN_THRESHOLD /\ prev.ds_snr_min >= SNR_WARN_THRESHOLD
             THEN <<Event("warning", "snr_change",
                          [prev |-> prev.ds_snr_min, current |-> cur.ds_snr_min,
                           threshold |-> "warning"])>>
             ELSE <<>>)

_check_snr(cur, prev) ==
    IF cur.ds_snr_min = prev.ds_snr_min THEN <<>>
    ELSE IF cur.ds_snr_min < SNR_CRIT_THRESHOLD /\ prev.ds_snr_min >= SNR_CRIT_THRESHOLD
        THEN <<Event("critical", "snr_change",
                     [prev |-> prev.ds_snr_min, current |-> cur.ds_snr_min,
                      threshold |-> "critical"])>>
    ELSE IF cur.ds_snr_min < SNR_WARN_THRESHOLD /\ prev.ds_snr_min >= SNR_WARN_THRESHOLD
        THEN <<Event("warning", "snr_change",
                     [prev |-> prev.ds_snr_min, current |-> cur.ds_snr_min,
                      threshold |-> "warning"])>>
    ELSE <<>>

_check_channels(cur, prev) ==
    (IF cur.ds_total # prev.ds_total
        THEN <<Event("info", "channel_change",
                     [direction |-> "downstream", prev |-> prev.ds_total,
                      current |-> cur.ds_total])>>
        ELSE <<>>)
    \o (IF cur.us_total # prev.us_total
        THEN <<Event("info", "channel_change",
                     [direction |-> "upstream", prev |-> prev.us_total,
                      current |-> cur.us_total])>>
        ELSE <<>>)

\* {ch["channel_id"]: ch.get("modulation", "") for ch in channels}: the last
\* record of an id is the one that stays
ModulationById(channels) ==
    [id \in {channels[i].channel_id : i \in 1..Len(channels)} |->
        LET last == CHOOSE i \in 1..Len(channels) :
                        /\ channels[i].channel_id = id
                        /\ \A j \in (i + 1)..Len(channels) : channels[j].channel_id # id
        IN  channels[last].modulation]

\* the entries the two loops of _check_modulation append for one direction
ModulationChanges(cur, prev, dir) ==
    {[channel |-> id, direction |-> dir, prev |-> prev[id], current |-> cur[id]] :
        id \in {i \in (DOMAIN cur) \cap (DOMAIN prev) : cur[i] # prev[i]}}

\* changed is a list in the iteration order of a set; here it is the set of
\* its entries
_check_modulation(cur_analysis, prev_analysis) ==
    LET changed ==
            ModulationChanges(ModulationById(cur_analysis.ds_channels),
                              ModulationById(prev_analysis.ds_channels), "DS")
            \cup ModulationChanges(ModulationById(cur_analysis.us_channels),
                                   ModulationById(prev_analysis.us_channels), "US")
    IN  IF changed # {}
            THEN <<Event("info", "modulation_change", [changes |-> changed])>>
            ELSE <<>>

_check_errors(cur, prev) ==
    LET delta == cur.ds_uncorrectable_errors - prev.ds_uncorrectable_errors
    IN  IF delta > UNCORR_SPIKE_THRESHOLD
            THEN <<Event("warning", "error_spike",
                         [prev |-> prev.ds_uncorrectable_errors,
                          current |-> cur.ds_uncorrectable_errors, delta |-> delta])>>
            ELSE <<>>

\* check comparing every analysis with the first one and keeping that one
check_keeping_baseline(prev, cur) ==
    IF prev = None
        THEN [_prev |-> cur,
              events |-> <<Event("info", "monitoring_started",
                                 [health |-> cur.summary.health])>>]
    ELSE [_prev |-> prev,
          events |-> _check_health(cur.summary, prev.summary)
                     \o _check_power(cur.summary, prev.summary)
                     \o _check_snr(cur.summary, prev.summary)
                     \o _check_channels(cur.summary, prev.summary)
                     \o _check_modulation(cur, prev)
                     \o _check_errors(cur.summary, prev.summary)]

\* EventDetector.check(cur) with self._prev = prev: the new self._prev and
\* the returned list
check(prev, cur) ==
    IF prev = None
        THEN [_prev |-> cur,
              events |-> <<Event("info", "monitoring_started",
                                 [health |-> cur.summary.health])>>]
    ELSE [_prev |-> cur,
          events |-> _check_health(cur.summary, prev.summary)
                     \o _check_power(cur.summary, prev.summary)
                     \o _check_snr(cur.summary, prev.summary)
                     \o _check_channels(cur.summary, prev.summary)
                     \o _check_modulation(cur, prev)
                     \o _check_errors(cur.summary, prev.summary)]

\* checks of one detector
MaxChecks == 4

\* a payload of one downstream 3.0 channel and one upstream channel
Snapshot(power, mse, uncorr, us_power) ==
    [channelDs |-> [docsis30 |-> <<Ds30(1, power, mse, uncorr)>>],
     channelUs |-> [docsis30 |-> <<Us(1, us_power)>>]]

\* what consecutive polls of a modem return: SNR proxies on both sides of
\* 25.0 and 30.0 and on them, power shifts of 2.0 and 3.0, error counts 1000
\* and 1001 apart, a channel without an SNR proxy, a channel whose proxy is
\* the float 0.0, a changed modulation, a second channel, no channel
PollPayloads ==
    {Snapshot(250, -3500, 0, 4200),
     Snapshot(250, -3000, 0, 4200),
     Snapshot(250, -2990, 0, 4200),
     Snapshot(250, -2500, 0, 4200),
     Snapshot(250, -2490, 0, 4200),
     Snapshot(450, -3500, 1000, 4400),
     Snapshot(550, -3500, 1001, 4500),
     [channelDs |-> [docsis30 |-> <<[channelID |-> 1, powerLevel |-> StrNum(250),
                                     modulation |-> S_256QAM, corrErrors |-> PyInt(0),
                                     nonCorrErrors |-> PyInt(0)]>>],
      channelUs |-> [docsis30 |-> <<Us(1, 4200)>>]],
     [channelDs |-> [docsis30 |-> <<[Ds30(1, 250, 0, 0) EXCEPT !.mse = Float(0)]>>],
      channelUs |-> [docsis30 |-> <<Us(1, 4200)>>]],
     [channelDs |-> [docsis31 |-> <<Ds31(1, 250, 3500, 0)>>],
      channelUs |-> [docsis30 |-> <<Us(1, 4200)>>]],
     [channelDs |-> [docsis30 |-> <<Ds30(1, 250, -3500, 0), Ds30(2, 250, -2800, 0)>>],
      channelUs |-> [docsis30 |-> <<Us(1, 4200)>>]],
     EmptyDict}

\* One pass of the polling loop (main.py 103-120): the driver returns a
\* payload, analyze returns its analysis and the detector checks it.
Poll ==
    /\ pc = "idle"
    /\ checks < MaxChecks
    /\ \E d \in PollPayloads, fsum \in FloatSumErrors :
          /\ analysis' = analyze(d, fsum)
          /\ _prev' = check(_prev, analysis')._prev
          /\ events' = check(_prev, analysis').events
    /\ before' = analysis
    /\ checks' = checks + 1
    /\ UNCHANGED <<_thresholds, pc, data, ch, docsis_ver, direction, verdict, result,
                   lookup_key, resolved, call_vars, web_vars, main_vars>>

\* polling_loop stops and a new one starts with a fresh detector (main.py 69)
NewDetector ==
    /\ pc = "idle"
    /\ checks > 0
    /\ _prev' = None
    /\ analysis' = None
    /\ before' = None
    /\ events' = <<>>
    /\ checks' = 0
    /\ UNCHANGED <<_thresholds, pc, data, ch, docsis_ver, direction, verdict, result,
                   lookup_key, resolved, call_vars, web_vars, main_vars>>

NextEvents == Poll \/ NewDetector

\* the polls of one polling loop
SpecEvents == InitImported /\ [][NextEvents]_vars

-----------------------------------------------------------------------------
(* Properties of the event detector (SpecEvents) *)

\* the events of one type in the list the latest check returned
EventsOfType(event_type) ==
    {i \in 1..Len(events) : events[i].event_type = event_type}

\* a later check of the detector: one with a check before it
LaterCheck == checks > 1

HealthRank(health) == CHOOSE n \in 0..2 : <<"good", "marginal", "poor">>[n + 1] = health

\* C24: after the first check there is exactly one health_change event iff
\* the health of the current summary differs from the health of the previous
\* one, and none otherwise; its severity is critical when the health worsens
\* to poor, warning when it worsens to marginal and info when it improves.
C24_HealthChange ==
    LaterCheck =>
        LET cur == analysis.summary.health
            prev == before.summary.health
        IN  IF cur = prev THEN EventsOfType("health_change") = {}
            ELSE /\ Cardinality(EventsOfType("health_change")) = 1
                 /\ \A i \in EventsOfType("health_change") :
                       /\ HealthRank(cur) > HealthRank(prev) /\ cur = "poor" =>
                             events[i].severity = "critical"
                       /\ HealthRank(cur) > HealthRank(prev) /\ cur = "marginal" =>
                             events[i].severity = "warning"
                       /\ HealthRank(cur) < HealthRank(prev) =>
                             events[i].severity = "info"

\* the health went from good to marginal and the detector warns
C24_Witness ==
    /\ checks = 2
    /\ before.summary.health = "good"
    /\ analysis.summary.health = "marginal"
    /\ \E i \in EventsOfType("health_change") : events[i].severity = "warning"

\* C25: a check returns at most one snr_change event: a critical one when
\* ds_snr_min moves from at least 25.0 to below 25.0, otherwise a warning
\* when it moves from at least 30.0 to below 30.0, and none when it rises,
\* is unchanged or stays on the same side of both thresholds.
C25_SnrChange ==
    LaterCheck =>
        LET cur == analysis.summary.ds_snr_min
            prev == before.summary.ds_snr_min
            severities == {events[i].severity : i \in EventsOfType("snr_change")}
        IN  /\ Cardinality(EventsOfType("snr_change")) <= 1
            /\ IF prev >= 2500 /\ cur < 2500 THEN severities = {"critical"}
               ELSE IF prev >= 3000 /\ cur < 3000 THEN severities = {"warning"}
               ELSE severities = {}
            /\ cur >= prev => severities = {}
            /\ (cur < 2500 <=> prev < 2500) /\ (cur < 3000 <=> prev < 3000) =>
                  severities = {}

\* ds_snr_min fell from 35.0 to 24.9, across both thresholds: one critical event
C25_Witness ==
    /\ checks = 2
    /\ before.summary.ds_snr_min = 3500
    /\ analysis.summary.ds_snr_min = 2490
    /\ Cardinality(EventsOfType("snr_change")) = 1
    /\ \E i \in EventsOfType("snr_change") : events[i].severity = "critical"

\* C29 as stated: an snr_change event is emitted only when a measured
\* downstream SNR dropped below a threshold; a snapshot in which no
\* downstream channel carries an SNR, after any snapshot, yields none.
C29_SnrChangeMeasured ==
    LaterCheck /\ (\A i \in 1..Len(analysis.ds_channels) : analysis.ds_channels[i].snr = <<>>)
        => EventsOfType("snr_change") = {}

-----------------------------------------------------------------------------
(* Manual polls: POST /api/poll (src/app/web.py) *)

\* seconds between two manual polls that the rate limit asks for
MANUAL_POLL_INTERVAL == 10

\* the clock is read every TickSeconds seconds and stops at MaxTime
TickSeconds == 5

MaxTime == 30

\* manual modem polls in one run
MaxPolls == 3

\* time passes
Tick ==
    /\ now + TickSeconds <= MaxTime
    /\ now' = now + TickSeconds
    /\ UNCHANGED <<_thresholds, pc, data, ch, docsis_ver, direction, verdict, result,
                   lookup_key, resolved, call_vars, detector_vars, main_vars,
                   _last_manual_poll, requests, modem_polls>>

\* a manual poll of the modem was carried out less than 10 seconds ago
PolledLately ==
    \E i \in 1..Len(modem_polls) : now - modem_polls[i].at < 10

\* lines 433-438: the handler reads the clock and _last_manual_poll; the
\* request is answered 429 with success false, or goes on to the modem.
\* early records whether the request came within 10 seconds of a poll.
ApiPoll(h) ==
    /\ requests[h].at = "idle"
    /\ requests' = [requests EXCEPT ![h] =
          IF now - _last_manual_poll < MANUAL_POLL_INTERVAL
              THEN [at |-> "idle", status |-> 429, early |-> PolledLately]
              ELSE [at |-> "polling", status |-> 0, early |-> PolledLately]]
    /\ UNCHANGED <<_thresholds, pc, data, ch, docsis_ver, direction, verdict, result,
                   lookup_key, resolved, call_vars, detector_vars, main_vars,
                   now, _last_manual_poll, modem_polls>>

\* lines 444-455: the driver logs in and get_docsis_data polls the modem
ModemPoll(h) ==
    /\ requests[h].at = "polling"
    /\ Len(modem_polls) < MaxPolls
    /\ modem_polls' = Append(modem_polls, [by |-> h, at |-> now])
    /\ requests' = [requests EXCEPT ![h].at = "polled"]
    /\ UNCHANGED <<_thresholds, pc, data, ch, docsis_ver, direction, verdict, result,
                   lookup_key, resolved, call_vars, detector_vars, main_vars,
                   now, _last_manual_poll>>

\* lines 445-453, 461-463: no driver, a failed login or an exception before
\* the modem was polled: 500 or 401, and _last_manual_poll stays
ModemPollFails(h) ==
    /\ requests[h].at = "polling"
    /\ \E status \in {401, 500} :
          requests' = [requests EXCEPT ![h].at = "idle", ![h].status = status]
    /\ UNCHANGED <<_thresholds, pc, data, ch, docsis_ver, direction, verdict, result,
                   lookup_key, resolved, call_vars, detector_vars, main_vars,
                   now, _last_manual_poll, modem_polls>>

\* lines 456-461: analyze, update_state, save_snapshot, then
\* _last_manual_poll = time.time() and the answer 200
ApiPollReturns(h) ==
    /\ requests[h].at = "polled"
    /\ _last_manual_poll' = now
    /\ requests' = [requests EXCEPT ![h].at = "idle", ![h].status = 200]
    /\ UNCHANGED <<_thresholds, pc, data, ch, docsis_ver, direction, verdict, result,
                   lookup_key, resolved, call_vars, detector_vars, main_vars,
                   now, modem_polls>>

\* lines 456-463: analyze or save_snapshot raises after the modem was
\* polled: 500, and _last_manual_poll stays
ApiPollRaises(h) ==
    /\ requests[h].at = "polled"
    /\ requests' = [requests EXCEPT ![h].at = "idle", ![h].status = 500]
    /\ UNCHANGED <<_thresholds, pc, data, ch, docsis_ver, direction, verdict, result,
                   lookup_key, resolved, call_vars, detector_vars, main_vars,
                   now, _last_manual_poll, modem_polls>>

NextManualPoll ==
    \/ Tick
    \/ \E h \in Handlers : ApiPoll(h)
    \/ \E h \in Handlers : ModemPoll(h)
    \/ \E h \in Handlers : ModemPollFails(h)
    \/ \E h \in Handlers : ApiPollReturns(h)
    \/ \E h \in Handlers : ApiPollRaises(h)

\* the request handlers serving POST /api/poll
SpecManualPoll == InitImported /\ [][NextManualPoll]_vars

\* the request of handler h got past the rate limit
PassedLimit(h) == requests[h].at # "idle" \/ requests[h].status \in {200, 401, 500}

\* C26 as stated: a manual poll requested less than 10 seconds after the
\* last manual poll is rejected (429, success false) and polls no modem, so
\* under every interleaving of requests no two manual modem polls are
\* carried out within 10 seconds of each other.
C26_ManualPollsSpaced ==
    /\ \A h \in Handlers : requests[h].early => ~PassedLimit(h)
    /\ \A i, j \in 1..Len(modem_polls) :
          i < j => modem_polls[j].at - modem_polls[i].at >= 10

-----------------------------------------------------------------------------
(* The polling loop and its restarts (src/app/main.py) *)

\* thread.is_alive(): started and not yet returned
IsAlive(t) == loops[t].at \in {"start", "test", "pass", "wait"}

\* the Thread objects and the Event objects are numbered as they are created
CreatedThreads == Cardinality({t \in Loops : loops[t].at # "unborn"})

CreatedEvents == Cardinality({e \in Loops : stop_events[e] # "unborn"})

\* calls of start_polling under way
Starting == {s \in Starters : starters[s].at \notin {"idle", "done"}}

\* line 200: start_polling tests poll_thread and poll_thread.is_alive().
\* main calls it once, at startup; a saved configuration calls it again.
StartPolling(s) ==
    /\ starters[s].at = "idle"
    /\ CreatedEvents + Cardinality(Starting) < MaxLoops
    /\ starters' = [starters EXCEPT ![s].at =
          IF poll_thread # 0 /\ IsAlive(poll_thread) THEN "set" ELSE "event"]
    /\ UNCHANGED <<_thresholds, pc, data, ch, docsis_ver, direction, verdict, result,
                   lookup_key, resolved, call_vars, detector_vars, web_vars,
                   poll_thread, poll_stop, loops, stop_events>>

\* line 201: poll_stop.set()
SetStop(s) ==
    /\ starters[s].at = "set"
    /\ stop_events' = [stop_events EXCEPT ![poll_stop] = "set"]
    /\ starters' = [starters EXCEPT ![s].at = "join"]
    /\ UNCHANGED <<_thresholds, pc, data, ch, docsis_ver, direction, verdict, result,
                   lookup_key, resolved, call_vars, detector_vars, web_vars,
                   poll_thread, poll_stop, loops>>

\* line 202: poll_thread.join(timeout=10) is called
JoinCalled(s) ==
    /\ starters[s].at = "join"
    /\ starters' = [starters EXCEPT ![s] = [at |-> "joined", target |-> poll_thread]]
    /\ UNCHANGED <<_thresholds, pc, data, ch, docsis_ver, direction, verdict, result,
                   lookup_key, resolved, call_vars, detector_vars, web_vars,
                   poll_thread, poll_stop, loops, stop_events>>

\* join returns: the thread has ended, or the 10 seconds are over while the
\* thread is inside a pass of its loop, whose requests to the modem wait up
\* to 10 seconds each; a thread that tests its event or sleeps a second at a
\* time ends before the timeout
JoinReturns(s) ==
    /\ starters[s].at = "joined"
    /\ loops[starters[s].target].at \in {"ended", "pass"}
    /\ starters' = [starters EXCEPT ![s].at = "event"]
    /\ UNCHANGED <<_thresholds, pc, data, ch, docsis_ver, direction, verdict, result,
                   lookup_key, resolved, call_vars, detector_vars, web_vars,
                   poll_thread, poll_stop, loops, stop_events>>

\* line 203: poll_stop = threading.Event()
NewEvent(s) ==
    /\ starters[s].at = "event"
    /\ poll_stop' = CreatedEvents + 1
    /\ stop_events' = [stop_events EXCEPT ![CreatedEvents + 1] = "clear"]
    /\ starters' = [starters EXCEPT ![s].at = "thread"]
    /\ UNCHANGED <<_thresholds, pc, data, ch, docsis_ver, direction, verdict, result,
                   lookup_key, resolved, call_vars, detector_vars, web_vars,
                   poll_thread, loops>>

\* lines 204-207: poll_thread = threading.Thread(..., poll_stop) and
\* poll_thread.start()
NewThread(s) ==
    /\ starters[s].at = "thread"
    /\ poll_thread' = CreatedThreads + 1
    /\ loops' = [loops EXCEPT ![CreatedThreads + 1] = [at |-> "start", stop_event |-> poll_stop]]
    /\ starters' = [starters EXCEPT ![s] =
          [at |-> IF s = "main" THEN "done" ELSE "idle", target |-> 0]]
    /\ UNCHANGED <<_thresholds, pc, data, ch, docsis_ver, direction, verdict, result,
                   lookup_key, resolved, call_vars, detector_vars, web_vars,
                   poll_stop, stop_events>>

\* polling_loop lines 33-79: the driver is loaded, or the loop returns
LoopStarts(t) ==
    /\ loops[t].at = "start"
    /\ \E at \in {"test", "ended"} : loops' = [loops EXCEPT ![t].at = at]
    /\ UNCHANGED <<_thresholds, pc, data, ch, docsis_ver, direction, verdict, result,
                   lookup_key, resolved, call_vars, detector_vars, web_vars,
                   poll_thread, poll_stop, stop_events, starters>>

\* line 81: while not stop_event.is_set(); lines 174-180 after the loop
LoopTest(t) ==
    /\ loops[t].at = "test"
    /\ loops' = [loops EXCEPT ![t].at =
          IF stop_events[loops[t].stop_event] = "set" THEN "ended" ELSE "pass"]
    /\ UNCHANGED <<_thresholds, pc, data, ch, docsis_ver, direction, verdict, result,
                   lookup_key, resolved, call_vars, detector_vars, web_vars,
                   poll_thread, poll_stop, stop_events, starters>>

\* lines 82-166: one pass, ended by its last statement or by an exception
LoopPass(t) ==
    /\ loops[t].at = "pass"
    /\ loops' = [loops EXCEPT ![t].at = "wait"]
    /\ UNCHANGED <<_thresholds, pc, data, ch, docsis_ver, direction, verdict, result,
                   lookup_key, resolved, call_vars, detector_vars, web_vars,
                   poll_thread, poll_stop, stop_events, starters>>

\* lines 169-172: the wait, left when the event is set or the interval is over
LoopWait(t) ==
    /\ loops[t].at = "wait"
    /\ loops' = [loops EXCEPT ![t].at = "test"]
    /\ UNCHANGED <<_thresholds, pc, data, ch, docsis_ver, direction, verdict, result,
                   lookup_key, resolved, call_vars, detector_vars, web_vars,
                   poll_thread, poll_stop, stop_events, starters>>

\* a step of the thread t
LoopStep(t) == LoopStarts(t) \/ LoopTest(t) \/ LoopPass(t) \/ LoopWait(t)

NextPolling ==
    \/ \E s \in Starters : StartPolling(s)
    \/ \E s \in Starters : SetStop(s)
    \/ \E s \in Starters : JoinCalled(s)
    \/ \E s \in Starters : JoinReturns(s)
    \/ \E s \in Starters : NewEvent(s)
    \/ \E s \in Starters : NewThread(s)
    \/ \E t \in Loops : LoopStarts(t)
    \/ \E t \in Loops : LoopTest(t)
    \/ \E t \in Loops : LoopPass(t)
    \/ \E t \in Loops : LoopWait(t)

\* main, the request handlers saving a configuration and the polling
\* threads; a started thread keeps running, and each of its statements ends
SpecPolling ==
    InitImported /\ [][NextPolling]_vars /\ \A t \in Loops : WF_vars(LoopStep(t))

\* the polling threads that run
RunningLoops == {t \in Loops : IsAlive(t)}

StopSet(t) == IsAlive(t) /\ stop_events[loops[t].stop_event] = "set"

\* C30 as stated: after any sequence of configuration changes at most one
\* polling loop thread runs at a time, start_polling having stopped the
\* previous loop before the new one starts, and a loop whose stop event is
\* set eventually terminates.
C30_OnePollingLoop ==
    /\ [](Cardinality(RunningLoops) <= 1)
    /\ \A t \in Loops : StopSet(t) ~> loops[t].at = "ended"

====
